---- MODULE Spec2Model ----
(***************************************************************************)
(* CalmaLink chat backend: the handler variants of the repository          *)
(* (api/chat.js, the two handlers of api/chat_v2.js, the chat_v3 hybrid    *)
(* handler and the two earlier deterministic api/chat.js revisions), their *)
(* keyword classifiers and their response composition.                     *)
(*                                                                         *)
(* Texts are TLA+ strings; matching is by character, as                    *)
(* String.prototype.includes does it, after toLowerCase and trim.          *)
(***************************************************************************)
EXTENDS Integers, Sequences, FiniteSets, TLC

VARIABLES
    pc,       \* "idle", "received", "await_first", "await_follow", "done"
    variant,  \* the handler file that serves the request
    hasKey,   \* process.env.OPENAI_API_KEY is set
    req,      \* the request being served
    first,    \* what the model calls of the request returned (hybrid handlers)
    lookup,   \* the language code handed to a practice lookup, or the one
              \* inferLanguage returned in SpecLang; "none" otherwise
    res,      \* the response sent, NoResponse while none is
    prev,     \* an earlier exchange of the same instance, kept by the observer
              \* of SpecPair; NoExchange in Spec
    sent,     \* how many times the handler wrote a response for the request
    calls,    \* the invocations in flight of SpecConc, each with its own
              \* bindings (req, body, first, res); all idle in the other specs
    moduleState \* the module-level bindings of the file (const arrays and
              \* objects, which JavaScript lets any code write into)

vars == <<pc, variant, hasKey, req, first, lookup, res, prev, sent, calls, moduleState>>

(***************************************************************************)
(* Bounds of the model.                                                    *)
(***************************************************************************)
MaxTurns == 2

\* longest history handed to inferLanguage alone (its window is five entries)
MaxLangTurns == 6

(***************************************************************************)
(* String primitives of the JavaScript runtime.                            *)
(***************************************************************************)
\* String.prototype.includes: k occurs in t as a contiguous substring.
StrIncludes(t, k) ==
    \E i \in 1..(Len(t) - Len(k) + 1) : SubSeq(t, i, i + Len(k) - 1) = k

UpperToLower ==
    [c \in {"A","B","C","D","E","F","G","H","I","J","K","L","M","N","O","P",
            "Q","R","S","T","U","V","W","X","Y","Z","Ñ","Á","É","Í","Ó","Ú"} |->
        CASE c = "A" -> "a" [] c = "B" -> "b" [] c = "C" -> "c" [] c = "D" -> "d"
          [] c = "E" -> "e" [] c = "F" -> "f" [] c = "G" -> "g" [] c = "H" -> "h"
          [] c = "I" -> "i" [] c = "J" -> "j" [] c = "K" -> "k" [] c = "L" -> "l"
          [] c = "M" -> "m" [] c = "N" -> "n" [] c = "O" -> "o" [] c = "P" -> "p"
          [] c = "Q" -> "q" [] c = "R" -> "r" [] c = "S" -> "s" [] c = "T" -> "t"
          [] c = "U" -> "u" [] c = "V" -> "v" [] c = "W" -> "w" [] c = "X" -> "x"
          [] c = "Y" -> "y" [] c = "Z" -> "z" [] c = "Ñ" -> "ñ" [] c = "Á" -> "á"
          [] c = "É" -> "é" [] c = "Í" -> "í" [] c = "Ó" -> "ó" [] c = "Ú" -> "ú"]

LowerChar(c) == IF c \in DOMAIN UpperToLower THEN UpperToLower[c] ELSE c

\* String.prototype.toLowerCase, character by character
RECURSIVE toLowerCase(_)
toLowerCase(s) ==
    IF Len(s) = 0 THEN ""
    ELSE IF Len(s) = 1 THEN LowerChar(s)
    ELSE LET h == Len(s) \div 2
         IN  toLowerCase(SubSeq(s, 1, h)) \o toLowerCase(SubSeq(s, h + 1, Len(s)))

WhiteSpace == {" ", "\t", "\n"}

\* String.prototype.trim: what lies between the first and the last character
\* that is not white space
trim(s) ==
    LET inked == {i \in 1..Len(s) : SubSeq(s, i, i) \notin WhiteSpace}
    IN  IF inked = {} THEN ""
        ELSE SubSeq(s, CHOOSE i \in inked : \A j \in inked : i <= j,
                       CHOOSE i \in inked : \A j \in inked : j <= i)

\* Array.prototype.join(" ")
RECURSIVE joinSpace(_)
joinSpace(parts) ==
    IF Len(parts) = 0 THEN ""
    ELSE IF Len(parts) = 1 THEN parts[1]
    ELSE parts[1] \o " " \o joinSpace(Tail(parts))

\* Array.prototype.slice(-n)
sliceLast(seq, n) ==
    IF Len(seq) <= n THEN seq ELSE SubSeq(seq, Len(seq) - n + 1, Len(seq))

\* Array.prototype.includes on a keyword table
ArrIncludes(arr, x) == \E i \in DOMAIN arr : arr[i] = x

(***************************************************************************)
(* The texts conversations are made of.  TLC compares strings by identity, *)
(* but the characters of a string that went through its state queue are    *)
(* read back byte-wise: Text(s) is the string s as it is written here, and  *)
(* every rule reads the content of a turn through it.                       *)
(***************************************************************************)
INTRO_ES == "Aquí tienes tu práctica de Respiración Calma."
INTRO_EN == "Here is your Calm Breath practice."
INVITE == "We currently offer a Calm Breath meditation in English and Spanish - more meditations are coming soon. Would you like to try one now?"

UserTexts ==
    {"I want to start a meditation but I want to kill myself",
     "can you play the meditation in spanish",
     "not now", "no meditation", "stop the audio",
     "english", "español", "en", "es", " English ",
     "yes", "play it in english", "play it in spanish", "reproduce la meditación",
     "show library", "help", "i feel sad",
     "suicide hotline list", "help me find the library", "help, but not now",
     "play the meditation", "listen to the track", "escuchar la pista",
     "lista de meditaciones", "calm breath en español"}

AssistantTexts == {INVITE, INTRO_EN}

SystemText == "You are CalmaLink."

PairTexts == {"yes", "español", "i feel sad", "not now"}

AllTexts == UserTexts \cup AssistantTexts \cup PairTexts \cup {SystemText, INTRO_ES, "", "42"}

Text(s) == CHOOSE t \in AllTexts : t = s

(***************************************************************************)
(* Shared helpers (identical in every variant).                            *)
(***************************************************************************)
\* (s || "").toLowerCase().trim(), tabulated over the texts of the model
NormTable == [t \in AllTexts |-> trim(toLowerCase(t))]

norm(s) == NormTable[s]

includesAny(text, arr) == \E i \in DOMAIN arr : StrIncludes(text, arr[i])

\* An element of the messages array is a record: ctype is the JSON type of its
\* content ("string", "number", "undefined" when the key is absent, and
\* "noprimitive" for an object such as {"toString": 1}, whose own toString is
\* not callable) and content is what String(content) gives, where it gives a
\* string.  A null element has role "null".
NoTurn == [role |-> "none", ctype |-> "undefined", content |-> ""]

\* [...messages].reverse().find(m => m && m.role === role && typeof m.content === "string")
lastWithRole(messages, role) ==
    LET idx == {i \in DOMAIN messages :
                    messages[i].role = role /\ messages[i].ctype = "string"}
        last == messages[CHOOSE i \in idx : \A j \in idx : j <= i]
    IN  IF idx = {} THEN NoTurn
        ELSE [last EXCEPT !.content = Text(@)]

(***************************************************************************)
(* Practice catalog and allow-list.  In the fixed texts the typographic    *)
(* characters of the source outside Latin-1 are written in ASCII: the      *)
(* bullet as *, curly quotes as ' and the long dash as -.  No keyword      *)
(* table contains any of them.                                             *)
(***************************************************************************)
ALLOWED_ORIGINS == <<"https://www.calmalink.com", "https://calmalink.com">>

AUDIO_EN == "https://calmalink-api-fresh.vercel.app/calmbreathenglish.mp3"
AUDIO_ES == "https://calmalink-api-fresh.vercel.app/spanishcalmbreath.mp3"

MEDITATIONS ==
    [en |-> [calm_breath |->
                [title    |-> "Calm Breath * 3 min",
                 duration |-> 3,
                 audioUrl |-> AUDIO_EN,
                 script   |-> "Sit comfortably. Inhale 4, exhale 6. With each exhale, soften your shoulders and jaw. If thoughts arise, place them on a cloud and let them drift by. Return to your breath: inhale for 4, exhale for 6. When you're ready, open your eyes and carry this calm with you."]],
     es |-> [calm_breath |->
                [title    |-> "Respiración Calma * 3 min",
                 duration |-> 3,
                 audioUrl |-> AUDIO_ES,
                 script   |-> "Siéntate con comodidad. Inhala 4, exhala 6. Con cada exhalación, suaviza hombros y mandíbula. Si surgen pensamientos, colócalos sobre una nube y déjalos pasar. Regresa a la respiración: inhala 4, exhala 6. Cuando estés listo, abre los ojos y lleva contigo esta calma."]]]

(***************************************************************************)
(* Keyword tables (api/chat.js; api/chat_v2.js repeats them verbatim).     *)
(***************************************************************************)
YES_EN == <<"yes","yeah","yep","ok","okay","sure","go ahead","lets do it","let's do it","please","do it","start it","begin">>
YES_ES == <<"sí","si","dale","va","claro","por favor","hazlo","empecemos","empieza","inicia">>
START_EN == <<"calm breath","calm_breath","play","listen","start","begin","audio","track","meditation","meditate","breathe","breathing">>
START_ES == <<"respiración calma","respiracion calma","reproduce","escuchar","iniciar","empezar","pista","meditación","meditacion","respira","respiración","respiracion">>
LANG_EN_ONLY == <<"english","inglés","ingles","en">>
LANG_ES_ONLY == <<"spanish","español","espanol","es">>
LIBRARY_TRIGGERS == <<"library","catalog","list","what do you have","what meditations","qué tienes","biblioteca","lista">>
HELP_TRIGGERS == <<"help","how to","ayuda","como uso","¿cómo uso?","instructions">>
CRISIS_EN == <<"kill myself","suicide","want to die","hurt myself","harm myself","overdose","self harm","self-harm","end my life">>
CRISIS_ES == <<"suicidio","matarme","quiero morir","hacerme daño","dañarme","autolesion","autolesión","sobredosis","quitarme la vida">>
TALK_EN == <<"just talk","i want to talk","can we talk","let's talk","lets talk","talk to me","chat with me","i want to chat","just chat","no meditation","no meditations","not now","later","maybe later","skip","stop","cancel","pause","no thanks","no thank you","don't want","dont want">>
TALK_ES == <<"solo hablar","quiero hablar","podemos hablar","hablemos","platiquemos","charlemos","quiero charlar","solo chatear","sin meditación","sin meditacion","no meditación","no meditacion","no ahora","más tarde","mas tarde","quizás luego","quizas luego","omitir","detener","cancelar","pausa","no gracias","no quiero">>
ES_HINTS == <<"español","espanol","meditación","meditacion","respiración","respiracion","reproduce","escuchar","pista">>


(***************************************************************************)
(* Requests and responses.                                                 *)
(*   req.body.kind: "object"  a JSON body whose messages is an array,      *)
(*                  "nomessages" a JSON body without a messages member,    *)
(*                  "nullmessages" a JSON body whose messages is null,     *)
(*                  "notarray" a JSON body whose messages is an object     *)
(*                     with the entries of req.body.messages (Array.isArray *)
(*                     is false for it),                                   *)
(*                  "empty" an empty string body or no streamed data,      *)
(*                  "invalid" a string body that JSON.parse rejects,       *)
(*                  "invalid_stream" streamed data JSON.parse rejects.     *)
(*   res.branch names the return statement that sent the response.         *)
(***************************************************************************)
NoResult == [title |-> "", language |-> "", duration |-> 0, audioUrl |-> "", script |-> ""]
NoTool == [name |-> "none", result |-> NoResult]
NoResponse == [status |-> 0, message |-> "", tool |-> NoTool, branch |-> "none", allowOrigin |-> ""]
NoRequest == [method |-> "none", origin |-> "", body |-> [kind |-> "none", messages |-> <<>>]]
NoExchange == [variant |-> "none", req |-> NoRequest, res |-> NoResponse]

\* withCORS: the Access-Control-Allow-Origin header
withCORS(origin, allowed) == IF ArrIncludes(allowed, origin) THEN origin ELSE allowed[1]

\* ok(res, payload) with payload { message } or { message, tool }
ok(message, tool, branch, allow) ==
    [status |-> 200, message |-> message, tool |-> tool, branch |-> branch, allowOrigin |-> allow]

\* bad(res, code, message)
bad(code, message, branch, allow) ==
    [status |-> code, message |-> message, tool |-> NoTool, branch |-> branch, allowOrigin |-> allow]

\* res.status(200).end()
endOptions(allow) ==
    [status |-> 200, message |-> "", tool |-> NoTool, branch |-> "Options", allowOrigin |-> allow]

\* parseBody: ok = FALSE when the promise rejects
parseBody(r) ==
    IF r.body.kind \in {"invalid", "invalid_stream"} THEN [ok |-> FALSE, messages |-> <<>>]
    ELSE [ok |-> TRUE,
          \* Array.isArray(body?.messages) ? body.messages : []
          messages |-> IF r.body.kind = "object" THEN r.body.messages ELSE <<>>]

MSG_USE_POST == "Use POST to chat. / Usa POST para chatear."
MSG_BAD_JSON == "Invalid JSON body."

(***************************************************************************)
(* api/chat.js                                                             *)
(***************************************************************************)
\* [...messages].slice(-5).map(m => (m?.role === "user" ? (m.content || "") : ""))
recentUserContents(messages) ==
    LET recent == sliceLast(messages, 5)
    IN  [i \in 1..Len(recent) |->
            IF recent[i].role = "user" THEN Text(recent[i].content) ELSE ""]

\* .join(" ") meets a content that cannot be converted to a string
joinThrows(messages) ==
    LET recent == sliceLast(messages, 5)
    IN  \E i \in 1..Len(recent) :
            recent[i].role = "user" /\ recent[i].ctype = "noprimitive"

\* An exception leaves the async handler: its promise rejects, the handler
\* sends nothing and the platform closes the exchange with a bare 500.
threw(allow) ==
    [status |-> 500, message |-> "", tool |-> NoTool, branch |-> "Threw", allowOrigin |-> allow]

\* Infer likely language from recent user turns (last 5)
\* Array.prototype.join converts each element with ToString, which throws a
\* TypeError for an object that has neither a callable toString nor a valueOf
\* returning a primitive; the result "throws" stands for that exception.
inferLanguage(messages) ==
    LET recent == sliceLast(messages, 5)
        text == toLowerCase(joinSpace(recentUserContents(messages)))
    IN  IF joinThrows(messages) THEN "throws"
        ELSE IF includesAny(text, ES_HINTS) THEN "es"
        ELSE IF includesAny(text, <<"english">>) THEN "en"
        ELSE "en"

\* wantsMeditation taking an affirmation as a start only when the previous
\* assistant message was the library nudge
wantsMeditation_yesAfterNudge(messages) ==
    LET lastUser == lastWithRole(messages, "user")
        t == norm(lastUser.content)
        saidYes == includesAny(t, YES_EN \o YES_ES)
        saidStart == includesAny(t, START_EN \o START_ES)
        prevAssistant == lastWithRole(messages, "assistant")
    IN  IF lastUser = NoTurn THEN [want |-> FALSE, lang |-> "null"]
        ELSE IF ArrIncludes(LANG_EN_ONLY, t) THEN [want |-> TRUE, lang |-> "en"]
        ELSE IF ArrIncludes(LANG_ES_ONLY, t) THEN [want |-> TRUE, lang |-> "es"]
        ELSE IF saidStart THEN [want |-> TRUE, lang |-> "null"]
        ELSE IF /\ prevAssistant # NoTurn
                /\ StrIncludes(toLowerCase(prevAssistant.content), "we currently offer a calm breath")
                /\ saidYes
             THEN [want |-> TRUE, lang |-> "null"]
        ELSE [want |-> FALSE, lang |-> "null"]

wantsMeditation(messages) ==
    LET lastUser == lastWithRole(messages, "user")
        t == norm(lastUser.content)
        saidYes == includesAny(t, YES_EN \o YES_ES)
        saidStart == includesAny(t, START_EN \o START_ES)
        prevAssistant == lastWithRole(messages, "assistant")
    IN  IF lastUser = NoTurn THEN [want |-> FALSE, lang |-> "null"]
        ELSE IF ArrIncludes(LANG_EN_ONLY, t) THEN [want |-> TRUE, lang |-> "en"]
        ELSE IF ArrIncludes(LANG_ES_ONLY, t) THEN [want |-> TRUE, lang |-> "es"]
        ELSE IF saidYes \/ saidStart THEN [want |-> TRUE, lang |-> "null"]
        ELSE IF /\ prevAssistant # NoTurn
                /\ StrIncludes(toLowerCase(prevAssistant.content), "we currently offer a calm breath")
                /\ saidYes
             THEN [want |-> TRUE, lang |-> "null"]
        ELSE [want |-> FALSE, lang |-> "null"]

wantsLibrary(messages) ==
    LET lastUser == lastWithRole(messages, "user")
    IN  lastUser # NoTurn /\ includesAny(norm(lastUser.content), LIBRARY_TRIGGERS)

wantsHelp(messages) ==
    LET lastUser == lastWithRole(messages, "user")
    IN  lastUser # NoTurn /\ includesAny(norm(lastUser.content), HELP_TRIGGERS)

\* isCrisis reading every user turn of the history instead of the last one
isCrisis_anyTurn(messages) ==
    \E i \in DOMAIN messages :
        /\ messages[i].role = "user" /\ messages[i].ctype = "string"
        /\ includesAny(norm(Text(messages[i].content)), CRISIS_EN \o CRISIS_ES)

isCrisis(messages) ==
    LET lastUser == lastWithRole(messages, "user")
        t == norm(lastUser.content)
    IN  lastUser # NoTurn /\ (includesAny(t, CRISIS_EN) \/ includesAny(t, CRISIS_ES))

supportiveReply(lang) ==
    IF lang = "es"
    THEN "Gracias por compartir. Estoy aquí contigo-un paso a la vez. ¿Quieres hacer una Respiración Calma de 3 minutos ahora? Di 'español' o 'english' para elegir idioma."
    ELSE "Thanks for sharing. I'm here with you-one step at a time. Want to do a 3-minute Calm Breath now? Say 'english' or 'español' to choose language."

libraryReply(lang) ==
    IF lang = "es"
    THEN "Biblioteca actual:\n* Respiración Calma (3 min) - Español e Inglés\nMás meditaciones llegarán pronto."
    ELSE "Current library:\n* Calm Breath (3 min) - English & Spanish\nMore meditations are coming soon."

helpReply(lang) ==
    IF lang = "es"
    THEN "Puedes decir: 'español' o 'english' * 'reproduce la meditación' * 'escuchar la pista' * 'lista de meditaciones'. Si necesitas ayuda urgente, llama al 911 o al 988 en EE. UU."
    ELSE "You can say: 'english' or 'español' * 'play the meditation' * 'listen to the track' * 'show library'. If you need urgent help, call 911 or 988 (U.S.)."

crisisReply(lang) ==
    IF lang = "es"
    THEN "Siento que estés pasando por esto. No puedo ofrecer ayuda de crisis, pero quiero que obtengas apoyo inmediato. En EE. UU., llama o envía un texto al 988 (Línea de Vida), o llama al 911 si es una emergencia. Si estás fuera de EE. UU., usa tu número local de emergencias."
    ELSE "I'm really sorry you're going through this. I can't provide crisis support here, but I want you to get immediate help. In the U.S., call or text 988 (Suicide & Crisis Lifeline), or call 911 if this is an emergency. If you're outside the U.S., use your local emergency number."

\* Property names every object inherits from Object.prototype: MEDITATIONS[k]
\* is then a truthy value that has no calm_breath.
ProtoKeys == {"constructor", "toString", "__proto__"}
Undefined == [undefined |-> TRUE]
Inherited == [inherited |-> TRUE]

\* MEDITATIONS[lang]
catalogLookup(lang) ==
    IF lang \in DOMAIN MEDITATIONS THEN MEDITATIONS[lang]
    ELSE IF lang \in ProtoKeys THEN Inherited
    ELSE Undefined

\* sendMeditation without the fallbacks to the English entry: reading
\* calm_breath of a missing entry throws and the request ends in an error.
sendMeditation_noFallback(lang, allow) ==
    LET found == catalogLookup(lang)
        intro == IF lang = "es" THEN INTRO_ES ELSE INTRO_EN
    IN  IF found = Undefined \/ "calm_breath" \notin DOMAIN found
        THEN bad(500, "TypeError", "Threw", allow)
        ELSE ok(intro,
                [name |-> "get_meditation",
                 result |-> [title |-> found.calm_breath.title, language |-> lang,
                             duration |-> found.calm_breath.duration,
                             audioUrl |-> found.calm_breath.audioUrl,
                             script |-> found.calm_breath.script]],
                "StartPractice", allow)

\* sendMeditation(res, lang): the payload { message, tool }
sendMeditation(lang, allow) ==
    LET found == catalogLookup(lang)
        lib == IF found # Undefined THEN found ELSE MEDITATIONS.en
        med == IF "calm_breath" \in DOMAIN lib THEN lib.calm_breath ELSE MEDITATIONS.en.calm_breath
        intro == IF lang = "es" THEN INTRO_ES ELSE INTRO_EN
    IN  ok(intro,
           [name |-> "get_meditation",
            result |-> [title |-> med.title, language |-> lang, duration |-> med.duration,
                        audioUrl |-> med.audioUrl, script |-> med.script]],
           "StartPractice", allow)

\* chat.js handler with the decision.want guard lost: whatever is not
\* crisis, library or help is answered with the practice.
chat_handler_noWantGuard(r) ==
    LET allow == withCORS(r.origin, ALLOWED_ORIGINS)
        body == parseBody(r)
        messages == body.messages
        lang == inferLanguage(messages)
        decision == wantsMeditation(messages)
    IN  IF r.method = "OPTIONS" THEN endOptions(allow)
        ELSE IF r.method # "POST" THEN bad(405, MSG_USE_POST, "MethodNotAllowed", allow)
        ELSE IF ~body.ok THEN bad(400, MSG_BAD_JSON, "BadJson", allow)
        ELSE IF lang = "throws" THEN threw(allow)
        ELSE IF isCrisis(messages) THEN ok(crisisReply(lang), NoTool, "Crisis", allow)
        ELSE IF wantsLibrary(messages) THEN ok(libraryReply(lang), NoTool, "LibraryRequest", allow)
        ELSE IF wantsHelp(messages) THEN ok(helpReply(lang), NoTool, "HelpRequest", allow)
        ELSE sendMeditation(IF decision.lang # "null" THEN decision.lang ELSE lang, allow)

chat_handler(r) ==
    LET allow == withCORS(r.origin, ALLOWED_ORIGINS)
        body == parseBody(r)
        messages == body.messages
        lang == inferLanguage(messages)
        decision == wantsMeditation(messages)
    IN  IF r.method = "OPTIONS" THEN endOptions(allow)
        ELSE IF r.method # "POST" THEN bad(405, MSG_USE_POST, "MethodNotAllowed", allow)
        ELSE IF ~body.ok THEN bad(400, MSG_BAD_JSON, "BadJson", allow)
        ELSE IF lang = "throws" THEN threw(allow)
        ELSE IF isCrisis(messages) THEN ok(crisisReply(lang), NoTool, "Crisis", allow)
        ELSE IF wantsLibrary(messages) THEN ok(libraryReply(lang), NoTool, "LibraryRequest", allow)
        ELSE IF wantsHelp(messages) THEN ok(helpReply(lang), NoTool, "HelpRequest", allow)
        ELSE IF decision.want
             THEN sendMeditation(IF decision.lang # "null" THEN decision.lang ELSE lang, allow)
        ELSE ok(supportiveReply(lang), NoTool, "Unclassified", allow)


(***************************************************************************)
(* api/chat_v2.js, first handler (lines 1-181).  Its keyword tables,       *)
(* inferLanguage, wantsLibrary, wantsHelp, isCrisis, wantsMeditation,      *)
(* supportiveReply, libraryReply, helpReply and sendMeditation are the     *)
(* same code as in api/chat.js; the allow-list order and crisisReply       *)
(* differ.                                                                 *)
(***************************************************************************)
ALLOWED_ORIGINS_V2 == <<"https://calmalink.com", "https://www.calmalink.com">>

v2_crisisReply(lang) ==
    IF lang = "es"
    THEN "Siento que estés pasando por esto. En EE. UU., llama o envía un texto al 988 (Línea de Vida), o llama al 911 si es una emergencia. Si estás fuera de EE. UU., usa tu número local de emergencias."
    ELSE "I'm really sorry you're going through this. In the U.S., call or text 988 (Suicide & Crisis Lifeline), or call 911 if this is an emergency. If you're outside the U.S., use your local emergency number."

\* the first handler with its help text picked by the language of the matched
\* help keyword
v2_handler_replyByKeyword(r) ==
    LET allow == withCORS(r.origin, ALLOWED_ORIGINS_V2)
        body == parseBody(r)
        messages == body.messages
        lang == inferLanguage(messages)
        decision == wantsMeditation(messages)
        said == IF includesAny(norm(lastWithRole(messages, "user").content),
                               <<"ayuda", "como uso", "¿cómo uso?">>) THEN "es" ELSE "en"
    IN  IF r.method = "OPTIONS" THEN endOptions(allow)
        ELSE IF r.method # "POST" THEN bad(405, MSG_USE_POST, "MethodNotAllowed", allow)
        ELSE IF ~body.ok THEN bad(400, MSG_BAD_JSON, "BadJson", allow)
        ELSE IF lang = "throws" THEN threw(allow)
        ELSE IF isCrisis(messages) THEN ok(v2_crisisReply(lang), NoTool, "Crisis", allow)
        ELSE IF wantsLibrary(messages) THEN ok(libraryReply(lang), NoTool, "LibraryRequest", allow)
        ELSE IF wantsHelp(messages) THEN ok(helpReply(said), NoTool, "HelpRequest", allow)
        ELSE IF decision.want
             THEN sendMeditation(IF decision.lang # "null" THEN decision.lang ELSE lang, allow)
        ELSE ok(supportiveReply(lang), NoTool, "Unclassified", allow)

v2_handler(r) ==
    LET allow == withCORS(r.origin, ALLOWED_ORIGINS_V2)
        body == parseBody(r)
        messages == body.messages
        lang == inferLanguage(messages)
        decision == wantsMeditation(messages)
    IN  IF r.method = "OPTIONS" THEN endOptions(allow)
        ELSE IF r.method # "POST" THEN bad(405, MSG_USE_POST, "MethodNotAllowed", allow)
        ELSE IF ~body.ok THEN bad(400, MSG_BAD_JSON, "BadJson", allow)
        ELSE IF lang = "throws" THEN threw(allow)
        ELSE IF isCrisis(messages) THEN ok(v2_crisisReply(lang), NoTool, "Crisis", allow)
        ELSE IF wantsLibrary(messages) THEN ok(libraryReply(lang), NoTool, "LibraryRequest", allow)
        ELSE IF wantsHelp(messages) THEN ok(helpReply(lang), NoTool, "HelpRequest", allow)
        ELSE IF decision.want
             THEN sendMeditation(IF decision.lang # "null" THEN decision.lang ELSE lang, allow)
        ELSE ok(supportiveReply(lang), NoTool, "Unclassified", allow)

(***************************************************************************)
(* api/chat_v2.js, second handler (lines 183-400): the talk-only variant.  *)
(***************************************************************************)
\* Respect "talk only" or decline signals
wantsTalkOnly(messages) ==
    LET u == lastWithRole(messages, "user")
    IN  u # NoTurn /\ includesAny(norm(u.content), TALK_EN \o TALK_ES)

variants_en ==
    <<"Thanks for sharing. I'm here with you. What's on your mind?",
      "I hear you. That sounds like a lot. Want to tell me a bit more?",
      "You're not alone. What part feels heaviest right now?">>

variants_es ==
    <<"Gracias por compartir. Estoy aquí contigo. ¿Qué tienes en mente?",
      "Te escucho. Suena como mucho. ¿Quieres contarme un poco más?",
      "No estás solo/a. ¿Qué parte se siente más pesada ahora?">>

\* supportiveReply rotating its variants with a count kept between requests
talk_supportiveReply_served(messages, lang) ==
    LET count == Cardinality({i \in DOMAIN messages : messages[i].role = "user"})
                 + (IF prev = NoExchange THEN 0 ELSE 1)
        v == IF lang = "es" THEN variants_es ELSE variants_en
    IN  v[(count % Len(v)) + 1]

\* Simple supportive replies (varied by the number of user turns)
talk_supportiveReply(messages, lang) ==
    LET count == Cardinality({i \in DOMAIN messages : messages[i].role = "user"})
        v == IF lang = "es" THEN variants_es ELSE variants_en
    IN  v[(count % Len(v)) + 1]

talk_helpReply(lang) ==
    IF lang = "es"
    THEN "Puedes decir: 'solo hablar' si no quieres meditar * 'español' o 'english' para elegir idioma * 'reproduce la meditación' para empezar * 'lista de meditaciones' para ver opciones. Si necesitas ayuda urgente, llama al 911 o al 988 en EE. UU."
    ELSE "You can say: 'just talk' if you don't want to meditate * 'english' or 'español' to pick a language * 'play the meditation' to start * 'show library' to see options. If you need urgent help, call 911 or 988 (U.S.)."

\* talk-only handler with the decline rule moved up, ahead of the help rule
talk_handler_declineFirst(r) ==
    LET allow == withCORS(r.origin, ALLOWED_ORIGINS_V2)
        body == parseBody(r)
        messages == body.messages
        lang == inferLanguage(messages)
        decision == wantsMeditation(messages)
    IN  IF r.method = "OPTIONS" THEN endOptions(allow)
        ELSE IF r.method # "POST" THEN bad(405, MSG_USE_POST, "MethodNotAllowed", allow)
        ELSE IF ~body.ok THEN bad(400, MSG_BAD_JSON, "BadJson", allow)
        ELSE IF lang = "throws" THEN threw(allow)
        ELSE IF isCrisis(messages) THEN ok(v2_crisisReply(lang), NoTool, "Crisis", allow)
        ELSE IF wantsLibrary(messages) THEN ok(libraryReply(lang), NoTool, "LibraryRequest", allow)
        ELSE IF wantsTalkOnly(messages)
             THEN ok(talk_supportiveReply(messages, lang), NoTool, "DeclineOrTalkOnly", allow)
        ELSE IF wantsHelp(messages) THEN ok(talk_helpReply(lang), NoTool, "HelpRequest", allow)
        ELSE IF decision.want
             THEN sendMeditation(IF decision.lang # "null" THEN decision.lang ELSE lang, allow)
        ELSE ok(talk_supportiveReply(messages, lang), NoTool, "Unclassified", allow)

talk_handler(r) ==
    LET allow == withCORS(r.origin, ALLOWED_ORIGINS_V2)
        body == parseBody(r)
        messages == body.messages
        lang == inferLanguage(messages)
        decision == wantsMeditation(messages)
    IN  IF r.method = "OPTIONS" THEN endOptions(allow)
        ELSE IF r.method # "POST" THEN bad(405, MSG_USE_POST, "MethodNotAllowed", allow)
        ELSE IF ~body.ok THEN bad(400, MSG_BAD_JSON, "BadJson", allow)
        ELSE IF lang = "throws" THEN threw(allow)
        ELSE IF isCrisis(messages) THEN ok(v2_crisisReply(lang), NoTool, "Crisis", allow)
        ELSE IF wantsLibrary(messages) THEN ok(libraryReply(lang), NoTool, "LibraryRequest", allow)
        ELSE IF wantsHelp(messages) THEN ok(talk_helpReply(lang), NoTool, "HelpRequest", allow)
        ELSE IF wantsTalkOnly(messages)
             THEN ok(talk_supportiveReply(messages, lang), NoTool, "DeclineOrTalkOnly", allow)
        ELSE IF decision.want
             THEN sendMeditation(IF decision.lang # "null" THEN decision.lang ELSE lang, allow)
        ELSE ok(talk_supportiveReply(messages, lang), NoTool, "Unclassified", allow)


(***************************************************************************)
(* api/chat_v3.js, the hybrid handler (src/unnamed/part_000).              *)
(***************************************************************************)
v3_start == <<"calm breath","calm_breath","play","listen","start","begin","audio","track","meditation","meditate","breathe","breathing","reproduce","escuchar","iniciar","empezar","pista","meditación","meditacion","respiración","respiracion">>
v3_decline == <<"just talk","i want to talk","can we talk","no meditation","not now","later","skip","stop","cancel","solo hablar","sin meditación","sin meditacion","no ahora","más tarde","mas tarde","omitir","detener","pausa","no gracias","no quiero">>

\* quickIntent: name "nomatch" stands for the result null, name "null" for { name:null }
quickIntent(messages) ==
    LET last == lastWithRole(messages, "user")
        t == norm(last.content)
        lang == IF \/ StrIncludes(t, "español") \/ StrIncludes(t, "espanol")
                   \/ StrIncludes(t, " meditación") \/ StrIncludes(t, " respiración")
                THEN "es"
                ELSE IF StrIncludes(t, "english") THEN "en" ELSE "en"
    IN  IF last = NoTurn THEN [name |-> "nomatch", language |-> "null"]
        ELSE IF ArrIncludes(LANG_EN_ONLY, t) THEN [name |-> "get_meditation", language |-> "en"]
        ELSE IF ArrIncludes(LANG_ES_ONLY, t) THEN [name |-> "get_meditation", language |-> "es"]
        ELSE IF includesAny(t, v3_start) THEN [name |-> "get_meditation", language |-> lang]
        ELSE IF includesAny(t, v3_decline) THEN [name |-> "null", language |-> "null"]
        ELSE IF includesAny(t, LIBRARY_TRIGGERS) THEN [name |-> "get_library", language |-> "null"]
        ELSE IF includesAny(t, HELP_TRIGGERS) THEN [name |-> "get_help", language |-> "null"]
        ELSE IF includesAny(t, CRISIS_EN \o CRISIS_ES) THEN [name |-> "handoff_crisis", language |-> "null"]
        ELSE [name |-> "nomatch", language |-> "null"]

V3_LIBRARY == "Current library: Calm Breath (3 min) - English & Spanish. More meditations are coming soon. / Biblioteca actual: Respiración Calma (3 min) - Español e Inglés. Pronto añadiremos más."
V3_HELP == "You can say 'english' or 'español', 'play the meditation', 'show library', or just talk to me. / Puedes decir 'english' o 'español', 'reproduce la meditación', 'lista de meditaciones', o simplemente háblame."
V3_CRISIS == "I'm really sorry you're going through this. In the U.S., call or text 988 (Suicide & Crisis Lifeline), or call 911 if this is an emergency. / Siento que estés pasando por esto. En EE. UU., llama o envía un texto al 988, o llama al 911 si es una emergencia."
V3_MISCONFIGURED == "Server misconfigured. Missing OPENAI_API_KEY."
V3_RARE_FALLBACK == "I'm here with you. Would you like to talk, or try a 3-minute Calm Breath? / Estoy aquí contigo. ¿Quieres conversar o probar una Respiración Calma de 3 minutos?"
V3_ERROR == "Sorry-something went wrong. We can just talk, or I can guide a 3-minute Calm Breath. / Lo siento, algo falló. Podemos conversar o puedo guiar una Respiración Calma de 3 minutos."

\* The response sent before the first model call, or NoResponse when the handler
\* goes on to openai.responses.create (lines 157-192).
v3_handler(r, key) ==
    LET allow == withCORS(r.origin, ALLOWED_ORIGINS_V2)
        body == parseBody(r)
        messages == body.messages
        qi == quickIntent(messages)
    IN  IF r.method = "OPTIONS" THEN endOptions(allow)
        ELSE IF r.method # "POST" THEN bad(405, MSG_USE_POST, "MethodNotAllowed", allow)
        ELSE IF ~key THEN bad(500, V3_MISCONFIGURED, "Misconfigured", allow)
        ELSE IF ~body.ok THEN bad(400, MSG_BAD_JSON, "BadJson", allow)
        ELSE IF qi.name = "get_meditation" THEN sendMeditation(qi.language, allow)
        ELSE IF qi.name = "get_library" THEN ok(V3_LIBRARY, NoTool, "LibraryRequest", allow)
        ELSE IF qi.name = "get_help" THEN ok(V3_HELP, NoTool, "HelpRequest", allow)
        ELSE IF qi.name = "handoff_crisis" THEN ok(V3_CRISIS, NoTool, "Crisis", allow)
        ELSE NoResponse

\* What the first openai.responses.create can come back with:
\*   kind "throws"  the call rejects,
\*   kind "tool"    output[0] carries a tool call (name, arguments),
\*   kind "text"    output_text is non-empty,
\*   kind "empty"   neither.
\* arguments: "en", "es", "fr" stand for JSON whose language is that value,
\* "garbage" for text JSON.parse rejects.
ModelToolNames == {"get_meditation", "handoff_crisis", "get_library", "get_help", "unknown_tool"}
ModelArguments == {"en", "es", "fr", "garbage"}
MODEL_TEXT == "(text written by the model)"
\* follow is what the follow-up call came back with, "none" while there was
\* none.  A call that rejects does so with an Error whose message is
\* MODEL_ERROR.
MODEL_ERROR == "401 Incorrect API key provided: sk-proj-abc"
FirstOutcomes ==
    {[kind |-> "throws", name |-> "", arguments |-> "", follow |-> "none"],
     [kind |-> "text", name |-> "", arguments |-> "", follow |-> "none"],
     [kind |-> "empty", name |-> "", arguments |-> "", follow |-> "none"]}
    \cup {[kind |-> "tool", name |-> n, arguments |-> a, follow |-> "none"] :
            n \in ModelToolNames, a \in ModelArguments}
FollowOutcomes == {"throws", "text", "empty"}

\* lines 210-211: lang after JSON.parse(toolCall.arguments)
v3_toolLanguage(arguments) == IF arguments = "es" THEN "es" ELSE "en"

\* chat_v3 without its catch block: a rejected model call leaves the handler
v3_afterFirst_rethrows(r, out1) ==
    LET allow == withCORS(r.origin, ALLOWED_ORIGINS_V2)
    IN  IF out1.kind = "throws" THEN threw(allow)
        ELSE IF out1.kind = "tool" /\ out1.name = "get_meditation" THEN NoResponse
        ELSE IF out1.kind = "text" THEN ok(MODEL_TEXT, NoTool, "ModelText", allow)
        ELSE ok(V3_RARE_FALLBACK, NoTool, "ModelFallback", allow)

\* After the first call returned (lines 203-246): the response, or NoResponse
\* when the handler goes on to the follow-up call.
v3_afterFirst(r, out1) ==
    LET allow == withCORS(r.origin, ALLOWED_ORIGINS_V2)
    IN  IF out1.kind = "throws" THEN ok(V3_ERROR, NoTool, "ModelError", allow)
        ELSE IF out1.kind = "tool" /\ out1.name = "get_meditation" THEN NoResponse
        ELSE IF out1.kind = "text" THEN ok(MODEL_TEXT, NoTool, "ModelText", allow)
        ELSE ok(V3_RARE_FALLBACK, NoTool, "ModelFallback", allow)

\* After the follow-up call returned (lines 216-231, 243-246).
v3_afterFollow(r, out1, follow) ==
    LET allow == withCORS(r.origin, ALLOWED_ORIGINS_V2)
        lang == v3_toolLanguage(out1.arguments)
        found == catalogLookup(lang)
        lib == IF found # Undefined THEN found ELSE MEDITATIONS.en
        med == IF "calm_breath" \in DOMAIN lib THEN lib.calm_breath ELSE MEDITATIONS.en.calm_breath
        text == IF follow = "text" THEN MODEL_TEXT
                ELSE IF lang = "es" THEN "Aquí tienes tu práctica." ELSE "Here is your practice."
    IN  IF follow = "throws" THEN ok(V3_ERROR, NoTool, "ModelError", allow)
        ELSE ok(text,
                [name |-> "get_meditation",
                 result |-> [title |-> med.title, language |-> lang, duration |-> med.duration,
                             audioUrl |-> med.audioUrl, script |-> med.script]],
                "ModelTool", allow)


(***************************************************************************)
(* Older hybrid api/chat.js (src/unnamed/part_001): a quick-start          *)
(* recognizer, then the model decides.  Its OpenAI client is built when    *)
(* the module loads.                                                       *)
(***************************************************************************)
P1_FAIL == "Sorry, something went wrong. / Lo siento, hubo un problema."
P1_NUDGE == "We currently offer a Calm Breath meditation in English and Spanish - more meditations are coming soon. Would you like to try one now? / Actualmente ofrecemos una meditación de Respiración Calma en español e inglés - pronto añadiremos más. ¿Quieres probar una ahora?"

\* fail(res, msg): status 200 with the apology
fail(allow) ==
    [status |-> 200, message |-> P1_FAIL, tool |-> NoTool, branch |-> "Failed", allowOrigin |-> allow]

\* parseBody of part_001: a string body that does not parse is swallowed and
\* read as {}, streamed data that does not parse rejects the promise
p1_parseBody(r) ==
    IF r.body.kind = "invalid_stream" THEN [ok |-> FALSE, messages |-> <<>>]
    ELSE [ok |-> TRUE,
          messages |-> IF r.body.kind = "object" THEN r.body.messages ELSE <<>>]

\* Quick-start recognizer: language "null" stands for the result null
tryQuickMeditation(messages) ==
    LET lastUser == lastWithRole(messages, "user")
        t == toLowerCase(lastUser.content)
        mentionsCalm == \/ StrIncludes(t, "calm_breath") \/ StrIncludes(t, "calm breath")
                        \/ StrIncludes(t, "respiración calma") \/ StrIncludes(t, "respiracion calma")
    IN  IF lastUser = NoTurn THEN "null"
        ELSE IF ~mentionsCalm THEN "null"
        ELSE IF StrIncludes(t, "español") \/ StrIncludes(t, "spanish") \/ StrIncludes(t, "espanol")
             THEN "es"
        ELSE "en"

\* the handler up to its first await of the model; NoResponse when it goes on
p1_handler(r) ==
    LET allow == withCORS(r.origin, ALLOWED_ORIGINS)
        body == p1_parseBody(r)
        quick == tryQuickMeditation(body.messages)
    IN  IF r.method = "OPTIONS" THEN endOptions(allow)
        ELSE IF r.method # "POST" THEN ok(MSG_USE_POST, NoTool, "UsePost", allow)
        ELSE IF ~body.ok THEN fail(allow)
        ELSE IF quick # "null" THEN sendMeditation(quick, allow)
        ELSE NoResponse

\* the get_meditation payload of lines 168-170 and 191-197
p1_payload(language) ==
    LET found == catalogLookup(language)
        lib == IF found # Undefined THEN found ELSE MEDITATIONS.en
        med == IF "calm_breath" \in DOMAIN lib THEN lib.calm_breath ELSE MEDITATIONS.en.calm_breath
    IN  [name |-> "get_meditation",
         result |-> [title |-> med.title, language |-> language, duration |-> med.duration,
                     audioUrl |-> med.audioUrl, script |-> med.script]]

\* After the first call returned (lines 164-205): if (tc?.name) is true for
\* every tool name; JSON.parse(tc.arguments) throws into the outer catch.
p1_afterFirst(r, out1) ==
    LET allow == withCORS(r.origin, ALLOWED_ORIGINS)
    IN  IF out1.kind = "throws" THEN fail(allow)
        ELSE IF out1.kind = "tool"
             THEN IF out1.arguments = "garbage" THEN fail(allow) ELSE NoResponse
        ELSE ok(P1_NUDGE, NoTool, "ModelFallback", allow)

\* After the follow-up call returned (lines 172-198, 204-207).
p1_afterFollow(r, out1, follow) ==
    LET allow == withCORS(r.origin, ALLOWED_ORIGINS)
        language == IF out1.arguments = "es" THEN "es" ELSE "en"
        text == IF follow = "text" THEN MODEL_TEXT
                ELSE IF language = "es" THEN "Aquí tienes tu práctica." ELSE "Here is your practice."
    IN  IF follow = "throws" THEN fail(allow)
        ELSE ok(text, p1_payload(language), "ModelTool", allow)


(***************************************************************************)
(* Earlier api/chat.js revision with language-only start                   *)
(* (src/unnamed/part_002).                                                 *)
(***************************************************************************)
\* \w of a JavaScript regular expression without the u flag
WordChars ==
    {"a","b","c","d","e","f","g","h","i","j","k","l","m","n","o","p","q","r","s","t",
     "u","v","w","x","y","z","A","B","C","D","E","F","G","H","I","J","K","L","M","N",
     "O","P","Q","R","S","T","U","V","W","X","Y","Z","0","1","2","3","4","5","6","7",
     "8","9","_"}

\* /\bw\b/.test(text), for a word w that starts and ends with a \w character
regexWord(text, w) ==
    \E i \in 1..(Len(text) - Len(w) + 1) :
        /\ SubSeq(text, i, i + Len(w) - 1) = w
        /\ (i = 1 \/ SubSeq(text, i - 1, i - 1) \notin WordChars)
        /\ (i + Len(w) - 1 = Len(text) \/ SubSeq(text, i + Len(w), i + Len(w)) \notin WordChars)

p2_inferLanguage(messages) ==
    LET recent == sliceLast(messages, 5)
        text == toLowerCase(joinSpace(recentUserContents(messages)))
    IN  IF joinThrows(messages) THEN "throws"
        ELSE IF \E i \in DOMAIN ES_HINTS : regexWord(text, ES_HINTS[i]) THEN "es"
        ELSE IF regexWord(text, "english") THEN "en"
        ELSE "en"

startWords == <<"calm_breath","calm breath","respiración calma","respiracion calma","play","listen","start","begin","audio","track","meditation","meditate","reproduce","escuchar","iniciar","empezar","pista","meditación","meditacion">>
confirms == <<"yes","yeah","yep","ok","okay","sure","go ahead","let's do it","lets do it","sí","si","dale","va">>

p2_wantsMeditation(messages) ==
    LET lastUser == lastWithRole(messages, "user")
        t == trim(toLowerCase(lastUser.content))
        prevAssistant == lastWithRole(messages, "assistant")
    IN  IF Len(messages) = 0 \/ lastUser = NoTurn THEN [want |-> FALSE, lang |-> "null"]
        ELSE IF t = "english" THEN [want |-> TRUE, lang |-> "en"]
        ELSE IF t = "spanish" \/ t = "español" \/ t = "espanol" THEN [want |-> TRUE, lang |-> "es"]
        ELSE IF includesAny(t, startWords) \/ includesAny(t, confirms)
             THEN [want |-> TRUE, lang |-> "null"]
        ELSE IF /\ prevAssistant # NoTurn
                /\ StrIncludes(toLowerCase(prevAssistant.content), "we currently offer a calm breath")
                /\ includesAny(t, confirms)
             THEN [want |-> TRUE, lang |-> "null"]
        ELSE [want |-> FALSE, lang |-> "null"]

p2_supportiveReply(lang) ==
    IF lang = "es"
    THEN "Gracias por compartir. Estoy aquí para apoyarte con un paso a la vez. ¿Te gustaría hacer ahora una práctica breve de Respiración Calma (3 min)? Di 'español' o 'english' para elegir idioma."
    ELSE "Thanks for sharing. I'm here with you-one step at a time. Want to do a 3-minute Calm Breath now? Say 'english' or 'español' to choose language."

\* lines 128-141 of part_002 (and 123-136 of part_003): the practice payload
\* the inline payload with the entry always read from MEDITATIONS.en
p2_sendMeditation_englishEntry(lang, allow) ==
    LET med == MEDITATIONS.en.calm_breath
        intro == IF lang = "es" THEN INTRO_ES ELSE INTRO_EN
    IN  ok(intro,
           [name |-> "get_meditation",
            result |-> [title |-> med.title, language |-> lang, duration |-> med.duration,
                        audioUrl |-> med.audioUrl, script |-> med.script]],
           "StartPractice", allow)

p2_sendMeditation(lang, allow) ==
    LET found == catalogLookup(lang)
        med == IF found # Undefined /\ "calm_breath" \in DOMAIN found
               THEN found.calm_breath ELSE MEDITATIONS.en.calm_breath
        intro == IF lang = "es" THEN INTRO_ES ELSE INTRO_EN
    IN  ok(intro,
           [name |-> "get_meditation",
            result |-> [title |-> med.title, language |-> lang, duration |-> med.duration,
                        audioUrl |-> med.audioUrl, script |-> med.script]],
           "StartPractice", allow)

p2_handler(r) ==
    LET allow == withCORS(r.origin, ALLOWED_ORIGINS)
        body == parseBody(r)
        messages == body.messages
        decision == p2_wantsMeditation(messages)
    IN  IF r.method = "OPTIONS" THEN endOptions(allow)
        ELSE IF r.method # "POST" THEN bad(405, MSG_USE_POST, "MethodNotAllowed", allow)
        ELSE IF ~body.ok THEN bad(400, MSG_BAD_JSON, "BadJson", allow)
        ELSE IF decision.want
             THEN LET lang == IF decision.lang # "null" THEN decision.lang
                              ELSE p2_inferLanguage(messages)
                  IN  IF lang = "throws" THEN threw(allow) ELSE p2_sendMeditation(lang, allow)
        ELSE IF p2_inferLanguage(messages) = "throws" THEN threw(allow)
        ELSE ok(p2_supportiveReply(p2_inferLanguage(messages)), NoTool, "Unclassified", allow)

(***************************************************************************)
(* Minimal api/chat.js revision (src/unnamed/part_003).                    *)
(***************************************************************************)
esHits == <<"español","espanol","respiración","respiracion","meditación","meditacion","reproduce","escuchar","pista","iniciar","empezar","sí "," si ">>

p3_inferLanguage(messages) ==
    LET recent == sliceLast(messages, 5)
        text == toLowerCase(joinSpace(recentUserContents(messages)))
    IN  IF joinThrows(messages) THEN "throws"
        ELSE IF includesAny(text, esHits) THEN "es" ELSE "en"

p3_wantsMeditation(messages) ==
    LET lastUser == lastWithRole(messages, "user")
        t == toLowerCase(lastUser.content)
        prevAssistant == lastWithRole(messages, "assistant")
    IN  IF Len(messages) = 0 \/ lastUser = NoTurn THEN FALSE
        ELSE IF includesAny(t, startWords) \/ includesAny(t, confirms) THEN TRUE
        ELSE IF /\ prevAssistant # NoTurn
                /\ StrIncludes(toLowerCase(prevAssistant.content), "we currently offer a calm breath")
                /\ includesAny(t, confirms)
             THEN TRUE
        ELSE FALSE

p3_supportiveReply(lang) ==
    IF lang = "es"
    THEN "Gracias por compartir. Estoy aquí para apoyarte con un paso a la vez. ¿Te gustaría hacer ahora una práctica breve de Respiración Calma (3 min)?"
    ELSE "Thanks for sharing. I'm here to support you-one small step at a time. Would you like to do a 3-minute Calm Breath now?"

p3_handler(r) ==
    LET allow == withCORS(r.origin, ALLOWED_ORIGINS)
        body == parseBody(r)
        messages == body.messages
    IN  IF r.method = "OPTIONS" THEN endOptions(allow)
        ELSE IF r.method # "POST" THEN bad(405, MSG_USE_POST, "MethodNotAllowed", allow)
        ELSE IF ~body.ok THEN bad(400, MSG_BAD_JSON, "BadJson", allow)
        ELSE IF p3_inferLanguage(messages) = "throws" THEN threw(allow)
        ELSE IF p3_wantsMeditation(messages)
             THEN p2_sendMeditation(p3_inferLanguage(messages), allow)
        ELSE ok(p3_supportiveReply(p3_inferLanguage(messages)), NoTool, "Unclassified", allow)


(***************************************************************************)
(* Inputs.                                                                 *)
(***************************************************************************)
\* elements that no rule can read: a null, a user turn without content, one
\* whose content is the number 42, one whose content is {"toString": 1}
OddTurns ==
    {[role |-> "null", ctype |-> "undefined", content |-> ""],
     [role |-> "user", ctype |-> "undefined", content |-> ""],
     [role |-> "user", ctype |-> "number", content |-> "42"],
     [role |-> "user", ctype |-> "noprimitive", content |-> ""]}

Turns ==
    {[role |-> "user", ctype |-> "string", content |-> c] : c \in UserTexts}
    \cup {[role |-> "assistant", ctype |-> "string", content |-> c] : c \in AssistantTexts}
    \cup {[role |-> "system", ctype |-> "string", content |-> SystemText]}
    \cup OddTurns

Histories(n) == UNION {[1..k -> Turns] : k \in 0..n}

Methods == {"POST", "OPTIONS", "GET"}
Origins == {"https://calmalink.com", "https://www.calmalink.com", "https://evil.example", ""}

\* POSTs of a conversation from the site, and every method and origin with the
\* short bodies.
Requests ==
    {[method |-> "POST", origin |-> "https://calmalink.com",
      body |-> [kind |-> "object", messages |-> h]] : h \in Histories(MaxTurns)}
    \cup {[method |-> m, origin |-> o, body |-> [kind |-> k, messages |-> <<>>]] :
            m \in Methods, o \in Origins,
            k \in {"object", "nomessages", "nullmessages", "empty", "invalid", "invalid_stream"}}
    \cup {[method |-> "POST", origin |-> "https://calmalink.com",
           body |-> [kind |-> "notarray", messages |-> h]] : h \in Histories(1)}

Variants ==
    {"chat", "chat_v2_first", "chat_v2_talk", "chat_v3", "part_001", "part_002", "part_003"}

\* Language codes handed to the practice lookup
LangCodes == {"en", "es", "fr", "pt", "EN", "", "constructor", "__proto__"}

\* the handler files that never call the model
DeterministicVariants == {"chat", "chat_v2_first", "chat_v2_talk", "part_002", "part_003"}

NoOutcome == [kind |-> "none", name |-> "", arguments |-> "", follow |-> "none"]

\* The invocations of the handler that SpecConc has in flight at a time.
Slots == {1, 2}

\* an invocation slot with no request in it
IdleCall ==
    [pc |-> "idle", req |-> NoRequest, first |-> NoOutcome, res |-> NoResponse,
     sent |-> 0, overlapped |-> FALSE]

\* what the module scope of a handler file holds when it is loaded
ModuleBindings ==
    [ALLOWED_ORIGINS |-> ALLOWED_ORIGINS, MEDITATIONS |-> MEDITATIONS,
     YES |-> YES_EN \o YES_ES, START |-> START_EN \o START_ES,
     LIBRARY_TRIGGERS |-> LIBRARY_TRIGGERS, HELP_TRIGGERS |-> HELP_TRIGGERS,
     CRISIS |-> CRISIS_EN \o CRISIS_ES]

\* the count when bad(res, 400, ...) is not returned and the handler goes on
\* to classify and answer
sends_noReturn(out) ==
    IF out = NoResponse \/ out.branch = "Threw" THEN 0
    ELSE IF out.branch = "BadJson" THEN 2
    ELSE 1

\* How many times the path that ends with out wrote a response: every
\* ok(...), bad(...), fail(...) and res.status(200).end() of the handlers is
\* the operand of a return; a path that awaits or throws wrote nothing.
sends(out) == IF out = NoResponse \/ out.branch = "Threw" THEN 0 ELSE 1

(***************************************************************************)
(* The state machine: one request at a time is received, served by the     *)
(* deployed handler and answered.                                          *)
(***************************************************************************)
Init ==
    /\ pc = "idle"
    /\ variant = "none"
    /\ hasKey = TRUE
    /\ req = [method |-> "none", origin |-> "", body |-> [kind |-> "none", messages |-> <<>>]]
    /\ first = NoOutcome
    /\ lookup = "none"
    /\ res = NoResponse
    /\ prev = NoExchange
    /\ sent = 0
    /\ calls = [i \in Slots |-> IdleCall]
    /\ moduleState = ModuleBindings

\* A request arrives at one of the handler files.
client_request ==
    /\ pc = "idle"
    /\ \E v \in Variants, r \in Requests, k \in BOOLEAN :
        /\ (k = FALSE => v = "chat_v3")
        /\ variant' = v
        /\ hasKey' = k
        /\ req' = r
    /\ pc' = "received"
    /\ UNCHANGED <<first, lookup, res, prev>>
    /\ UNCHANGED <<sent, calls, moduleState>>

respond(out) ==
    /\ res' = out
    /\ sent' = sent + sends(out)
    /\ pc' = "done"
    /\ UNCHANGED <<variant, hasKey, req, first, lookup, prev>>
    /\ UNCHANGED <<calls, moduleState>>

chat_js == pc = "received" /\ variant = "chat" /\ respond(chat_handler(req))

chat_v2_first == pc = "received" /\ variant = "chat_v2_first" /\ respond(v2_handler(req))

chat_v2_talk == pc = "received" /\ variant = "chat_v2_talk" /\ respond(talk_handler(req))

part_002 == pc = "received" /\ variant = "part_002" /\ respond(p2_handler(req))

part_003 == pc = "received" /\ variant = "part_003" /\ respond(p3_handler(req))

\* part_001 up to its first await of the model
part_001 ==
    /\ pc = "received" /\ variant = "part_001"
    /\ LET out == p1_handler(req)
       IN  /\ IF out = NoResponse
              THEN pc' = "await_first" /\ UNCHANGED res
              ELSE pc' = "done" /\ res' = out
           /\ sent' = sent + sends(out)
    /\ UNCHANGED <<variant, hasKey, req, first, lookup, prev>>
    /\ UNCHANGED <<calls, moduleState>>

\* chat_v3 up to its first await of the model
chat_v3 ==
    /\ pc = "received" /\ variant = "chat_v3"
    /\ LET out == v3_handler(req, hasKey)
       IN  /\ IF out = NoResponse
              THEN pc' = "await_first" /\ UNCHANGED res
              ELSE pc' = "done" /\ res' = out
           /\ sent' = sent + sends(out)
    /\ UNCHANGED <<variant, hasKey, req, first, lookup, prev>>
    /\ UNCHANGED <<calls, moduleState>>

\* the first openai.responses.create settles
model_first ==
    /\ pc = "await_first"
    /\ \E o \in FirstOutcomes :
        /\ first' = o
        /\ LET out == IF variant = "chat_v3" THEN v3_afterFirst(req, o)
                      ELSE p1_afterFirst(req, o)
           IN  /\ IF out = NoResponse
                  THEN pc' = "await_follow" /\ UNCHANGED res
                  ELSE pc' = "done" /\ res' = out
               /\ sent' = sent + sends(out)
    /\ UNCHANGED <<variant, hasKey, req, lookup, prev>>
    /\ UNCHANGED <<calls, moduleState>>

\* the follow-up openai.responses.create settles
model_follow ==
    /\ pc = "await_follow"
    /\ \E f \in FollowOutcomes :
        /\ first' = [first EXCEPT !.follow = f]
        /\ res' = IF variant = "chat_v3" THEN v3_afterFollow(req, first, f)
                  ELSE p1_afterFollow(req, first, f)
    /\ sent' = sent + sends(res')
    /\ pc' = "done"
    /\ UNCHANGED <<variant, hasKey, req, lookup, prev>>
    /\ UNCHANGED <<calls, moduleState>>

\* sendMeditation applied to a language code (api/chat.js and the inline
\* lookup of part_002)
practice_lookup ==
    /\ pc = "idle"
    /\ \E v \in {"lookup_chat", "lookup_part_002"}, lang \in LangCodes, o \in Origins :
        /\ variant' = v
        /\ lookup' = lang
        /\ req' = [method |-> "POST", origin |-> o, body |-> [kind |-> "none", messages |-> <<>>]]
        /\ res' = IF v = "lookup_chat"
                  THEN sendMeditation(lang, withCORS(o, ALLOWED_ORIGINS))
                  ELSE p2_sendMeditation(lang, withCORS(o, ALLOWED_ORIGINS))
    /\ sent' = sent + sends(res')
    /\ pc' = "done"
    /\ UNCHANGED <<hasKey, first, prev>>
    /\ UNCHANGED <<calls, moduleState>>

\* the exchange is over; the handler keeps nothing from it
next_request ==
    /\ pc = "done"
    /\ pc' = "idle"
    /\ variant' = "none"
    /\ hasKey' = TRUE
    /\ req' = [method |-> "none", origin |-> "", body |-> [kind |-> "none", messages |-> <<>>]]
    /\ first' = NoOutcome
    /\ lookup' = "none"
    /\ res' = NoResponse
    /\ sent' = 0
    /\ UNCHANGED prev
    /\ UNCHANGED <<calls, moduleState>>

Next ==
    \/ client_request
    \/ chat_js
    \/ chat_v2_first
    \/ chat_v2_talk
    \/ chat_v3
    \/ part_001
    \/ model_first
    \/ model_follow
    \/ part_002
    \/ part_003
    \/ practice_lookup
    \/ next_request

Spec == Init /\ [][Next]_vars

(***************************************************************************)
(* Two exchanges of one instance: the deterministic handlers serve short   *)
(* conversations one after the other, and an observer keeps one of the     *)
(* finished exchanges to compare later ones with.                          *)
(***************************************************************************)
PairTurns ==
    {[role |-> "user", ctype |-> "string", content |-> c] : c \in PairTexts}
    \cup {[role |-> "assistant", ctype |-> "string", content |-> INVITE],
          [role |-> "user", ctype |-> "number", content |-> "42"]}

PairRequests ==
    {[method |-> "POST", origin |-> "https://calmalink.com",
      body |-> [kind |-> "object", messages |-> h]] :
        h \in UNION {[1..k -> PairTurns] : k \in 0..MaxTurns}}

\* the next request arrives at the file that served the remembered one
pair_request ==
    /\ pc = "idle"
    /\ \E v \in DeterministicVariants, r \in PairRequests :
        /\ (prev # NoExchange => v = prev.variant)
        /\ variant' = v
        /\ req' = r
    /\ pc' = "received"
    /\ UNCHANGED <<hasKey, first, lookup, res, prev>>
    /\ UNCHANGED <<sent, calls, moduleState>>

\* the exchange is over; the observer keeps it or keeps the one it has
pair_next ==
    /\ pc = "done"
    /\ prev' \in {prev, [variant |-> variant, req |-> req, res |-> res]}
    /\ pc' = "idle"
    /\ variant' = "none"
    /\ req' = NoRequest
    /\ res' = NoResponse
    /\ sent' = 0
    /\ UNCHANGED <<hasKey, first, lookup>>
    /\ UNCHANGED <<calls, moduleState>>

NextPair ==
    \/ pair_request
    \/ chat_js
    \/ chat_v2_first
    \/ chat_v2_talk
    \/ part_002
    \/ part_003
    \/ pair_next

SpecPair == Init /\ [][NextPair]_vars

(***************************************************************************)
(* The hybrid handlers and the remote model.  The runtime runs a handler   *)
(* that has a request or a settled model call in hand; nothing in the      *)
(* handlers bounds the time openai.responses.create takes (no timeout      *)
(* option, no AbortController, no Promise.race), so whether and when a     *)
(* model call settles is left to the remote service.                       *)
(***************************************************************************)
\* a request arrives at one of the hybrid handler files
hybrid_request ==
    /\ pc = "idle"
    /\ \E v \in {"chat_v3", "part_001"}, r \in PairRequests :
        /\ variant' = v
        /\ req' = r
    /\ pc' = "received"
    /\ UNCHANGED <<hasKey, first, lookup, res, prev>>
    /\ UNCHANGED <<sent, calls, moduleState>>

NextHybrid ==
    \/ hybrid_request
    \/ chat_v3
    \/ part_001
    \/ model_first
    \/ model_follow
    \/ next_request

LiveSpec == Init /\ [][NextHybrid]_vars /\ WF_vars(chat_v3 \/ part_001)


\* The response of file v to request r when its model calls, if it makes any,
\* come back as out (out.follow the follow-up call).
Served(v, r, key, out) ==
    LET o1 == [out EXCEPT !.follow = "none"]
        pre == IF v = "chat_v3" THEN v3_handler(r, key) ELSE p1_handler(r)
        mid == IF v = "chat_v3" THEN v3_afterFirst(r, o1) ELSE p1_afterFirst(r, o1)
    IN  IF v = "chat" THEN chat_handler(r)
        ELSE IF v = "chat_v2_first" THEN v2_handler(r)
        ELSE IF v = "chat_v2_talk" THEN talk_handler(r)
        ELSE IF v = "part_002" THEN p2_handler(r)
        ELSE IF v = "part_003" THEN p3_handler(r)
        ELSE IF pre # NoResponse THEN pre
        ELSE IF mid # NoResponse THEN mid
        ELSE IF v = "chat_v3" THEN v3_afterFollow(r, o1, out.follow)
        ELSE p1_afterFollow(r, o1, out.follow)

(***************************************************************************)
(* Concurrent invocations of one deployed file.  The runtime runs the      *)
(* async handler of a request until it returns or reaches an await         *)
(* (parseBody, openai.responses.create); while one invocation is           *)
(* suspended there another can start or resume.  req, body, messages and   *)
(* the model results are parameters and locals of the invocation.          *)
(***************************************************************************)
ConcHistories ==
    {<<>>,
     <<[role |-> "user", ctype |-> "string", content |-> "español"]>>,
     <<[role |-> "user", ctype |-> "string", content |-> "i feel sad"]>>,
     <<[role |-> "assistant", ctype |-> "string", content |-> INVITE],
       [role |-> "user", ctype |-> "string", content |-> "yes"]>>}

ConcRequests ==
    {[method |-> "POST", origin |-> "https://calmalink.com",
      body |-> [kind |-> "object", messages |-> h]] : h \in ConcHistories}
    \cup {[method |-> "POST", origin |-> "https://www.calmalink.com",
           body |-> [kind |-> "invalid_stream", messages |-> <<>>]],
          [method |-> "OPTIONS", origin |-> "https://evil.example",
           body |-> [kind |-> "empty", messages |-> <<>>]]}

ConcOutcomes ==
    {o \in FirstOutcomes :
        \/ o.kind \in {"throws", "text"}
        \/ o.kind = "tool" /\ o.name = "get_meditation" /\ o.arguments = "es"
        \/ o.kind = "tool" /\ o.name = "handoff_crisis" /\ o.arguments = "en"}

\* one binding for every invocation, as a module-level let would be
ownBindings_moduleLevel(c, i) == c[1]

\* the parameters and locals that invocation i reads: its own
ownBindings(c, i) == c[i]

\* another invocation is suspended at an await while invocation i runs
OthersSuspended(i) ==
    \E j \in Slots \ {i} : calls[j].pc \in {"parsing", "await_first", "await_follow"}

\* the file is deployed, with or without its key
conc_deploy ==
    /\ variant = "none"
    /\ \E v \in Variants, k \in BOOLEAN :
        /\ (k = FALSE => v = "chat_v3")
        /\ variant' = v
        /\ hasKey' = k
    /\ UNCHANGED <<pc, req, first, lookup, res, prev, sent, calls, moduleState>>

\* a request arrives and the runtime creates an invocation for it
conc_arrive(i) ==
    /\ variant # "none"
    /\ calls[i].pc = "idle"
    /\ \E r \in ConcRequests :
        calls' = [calls EXCEPT ![i] = [IdleCall EXCEPT !.pc = "received", !.req = r]]
    /\ UNCHANGED <<pc, variant, hasKey, req, first, lookup, res, prev, sent, moduleState>>

\* the step of invocation i that ends with response out, or at an await
conc_step(i, out, awaiting) ==
    /\ calls' = [calls EXCEPT ![i] =
                    [@ EXCEPT !.pc = IF out = NoResponse THEN awaiting ELSE "done",
                              !.res = IF out = NoResponse THEN @ ELSE out,
                              !.sent = @ + sends(out),
                              !.overlapped = @ \/ OthersSuspended(i)]]
    /\ UNCHANGED <<pc, variant, hasKey, req, first, lookup, res, prev, sent, moduleState>>

\* the handler runs from its start to await parseBody(req), or returns before
conc_begin(i) ==
    /\ calls[i].pc = "received"
    /\ LET b == ownBindings(calls, i)
           early == b.req.method # "POST" \/ (variant = "chat_v3" /\ ~hasKey)
       IN  conc_step(i, IF early THEN Served(variant, b.req, hasKey, NoOutcome) ELSE NoResponse,
                     "parsing")

\* parseBody has settled: the handler runs on to its response, or to the
\* first await of the model
conc_parsed(i) ==
    /\ calls[i].pc = "parsing"
    /\ LET b == ownBindings(calls, i)
       IN  conc_step(i,
                     IF variant = "chat_v3" THEN v3_handler(b.req, hasKey)
                     ELSE IF variant = "part_001" THEN p1_handler(b.req)
                     ELSE Served(variant, b.req, hasKey, NoOutcome),
                     "await_first")

\* the first model call of invocation i settles
conc_first(i) ==
    /\ calls[i].pc = "await_first"
    /\ \E o \in ConcOutcomes :
        LET b == ownBindings(calls, i)
            out == IF variant = "chat_v3" THEN v3_afterFirst(b.req, o) ELSE p1_afterFirst(b.req, o)
        IN  /\ calls' = [calls EXCEPT ![i] =
                    [@ EXCEPT !.first = o,
                              !.pc = IF out = NoResponse THEN "await_follow" ELSE "done",
                              !.res = IF out = NoResponse THEN @ ELSE out,
                              !.sent = @ + sends(out),
                              !.overlapped = @ \/ OthersSuspended(i)]]
    /\ UNCHANGED <<pc, variant, hasKey, req, first, lookup, res, prev, sent, moduleState>>

\* the follow-up model call of invocation i settles
conc_follow(i) ==
    /\ calls[i].pc = "await_follow"
    /\ \E f \in FollowOutcomes :
        LET b == ownBindings(calls, i)
            out == IF variant = "chat_v3" THEN v3_afterFollow(b.req, b.first, f)
                   ELSE p1_afterFollow(b.req, b.first, f)
        IN  /\ calls' = [calls EXCEPT ![i] =
                    [@ EXCEPT !.first = [@ EXCEPT !.follow = f],
                              !.pc = "done",
                              !.res = out,
                              !.sent = @ + sends(out),
                              !.overlapped = @ \/ OthersSuspended(i)]]
    /\ UNCHANGED <<pc, variant, hasKey, req, first, lookup, res, prev, sent, moduleState>>

\* the invocation is over and its bindings are gone
conc_finish(i) ==
    /\ calls[i].pc = "done"
    /\ calls' = [calls EXCEPT ![i] = IdleCall]
    /\ UNCHANGED <<pc, variant, hasKey, req, first, lookup, res, prev, sent, moduleState>>

NextConc ==
    \/ conc_deploy
    \/ \E i \in Slots : conc_arrive(i)
    \/ \E i \in Slots : conc_begin(i)
    \/ \E i \in Slots : conc_parsed(i)
    \/ \E i \in Slots : conc_first(i)
    \/ \E i \in Slots : conc_follow(i)
    \/ \E i \in Slots : conc_finish(i)

SpecConc == Init /\ [][NextConc]_vars

(***************************************************************************)
(* inferLanguage applied to histories longer than its window.              *)
(***************************************************************************)
LangTurns ==
    {[role |-> "user", ctype |-> "string", content |-> c] :
        c \in {"español", "english", "lista de meditaciones", "i feel sad"}}
    \cup {[role |-> "assistant", ctype |-> "string", content |-> INTRO_ES]}

LangHistories == UNION {[1..k -> LangTurns] : k \in 0..MaxLangTurns}

\* inferLanguage of the file
inferLanguageOf(v, messages) ==
    IF v = "part_002" THEN p2_inferLanguage(messages)
    ELSE IF v = "part_003" THEN p3_inferLanguage(messages)
    ELSE inferLanguage(messages)

\* the function is applied to a history
infer_language ==
    /\ pc = "idle"
    /\ \E v \in {"chat", "chat_v2_talk", "part_002", "part_003"}, h \in LangHistories :
        /\ variant' = v
        /\ req' = [method |-> "POST", origin |-> "https://calmalink.com",
                   body |-> [kind |-> "object", messages |-> h]]
        /\ lookup' = inferLanguageOf(v, h)
    /\ pc' = "done"
    /\ UNCHANGED <<hasKey, first, res, prev, sent, calls, moduleState>>

NextLang ==
    \/ infer_language
    \/ next_request

SpecLang == Init /\ [][NextLang]_vars

(***************************************************************************)
(* Vocabulary of the properties.                                           *)
(***************************************************************************)
\* The request was a POST with a readable JSON body and has been answered.
Answered ==
    /\ pc = "done" /\ lookup = "none" /\ req.method = "POST"
    /\ req.body.kind \notin {"invalid", "invalid_stream"}
    /\ res.branch # "Threw"

\* The history the handler classifies, and its last user message normalized
Msgs == parseBody(req).messages
HasLastUser == lastWithRole(Msgs, "user") # NoTurn
LastUserText == norm(lastWithRole(Msgs, "user").content)

HasCrisisKeyword == HasLastUser /\ includesAny(LastUserText, CRISIS_EN \o CRISIS_ES)
HasLibraryKeyword == HasLastUser /\ includesAny(LastUserText, LIBRARY_TRIGGERS)
HasHelpKeyword == HasLastUser /\ includesAny(LastUserText, HELP_TRIGGERS)
HasStartKeyword == HasLastUser /\ includesAny(LastUserText, START_EN \o START_ES)
HasAffirmation == HasLastUser /\ includesAny(LastUserText, YES_EN \o YES_ES)
HasDeclinePhrase == HasLastUser /\ includesAny(LastUserText, TALK_EN \o TALK_ES)
IsLanguageOnly ==
    HasLastUser /\ (ArrIncludes(LANG_EN_ONLY, LastUserText) \/ ArrIncludes(LANG_ES_ONLY, LastUserText))

\* The previous assistant turn was the invitation the code looks for.
PrevAssistantInvited ==
    /\ lastWithRole(Msgs, "assistant") # NoTurn
    /\ StrIncludes(toLowerCase(lastWithRole(Msgs, "assistant").content),
                   "we currently offer a calm breath")

\* The sentences of the fixed replies that propose the practice.
InvitationPhrases ==
    <<"Want to do a 3-minute Calm Breath now?",
      "¿Quieres hacer una Respiración Calma de 3 minutos ahora?",
      "Would you like to do a 3-minute Calm Breath now?",
      "¿Te gustaría hacer ahora una práctica breve de Respiración Calma",
      "Would you like to try one now?",
      "try a 3-minute Calm Breath",
      "I can guide a 3-minute Calm Breath">>
HasInvitation(message) == includesAny(message, InvitationPhrases)

HasPracticePayload == res.tool.name = "get_meditation"

SpanishPayload ==
    /\ res.tool.name = "get_meditation"
    /\ res.tool.result.language = "es"
    /\ res.tool.result.title = MEDITATIONS.es.calm_breath.title
    /\ res.tool.result.audioUrl = AUDIO_ES
    /\ res.tool.result.script = MEDITATIONS.es.calm_breath.script

\* The rules of a deterministic handler in the order its code tests them
RuleOrder(v) ==
    IF v = "chat_v2_talk"
    THEN <<"Crisis", "LibraryRequest", "HelpRequest", "DeclineOrTalkOnly", "StartPractice">>
    ELSE IF v \in {"chat", "chat_v2_first"}
    THEN <<"Crisis", "LibraryRequest", "HelpRequest", "StartPractice">>
    ELSE <<"StartPractice">>

RuleMatches(rule, v) ==
    CASE rule = "Crisis" -> HasCrisisKeyword
      [] rule = "LibraryRequest" -> HasLibraryKeyword
      [] rule = "HelpRequest" -> HasHelpKeyword
      [] rule = "DeclineOrTalkOnly" -> HasDeclinePhrase
      [] rule = "StartPractice" ->
            IF v = "part_002" THEN p2_wantsMeditation(Msgs).want
            ELSE IF v = "part_003" THEN p3_wantsMeditation(Msgs)
            ELSE IsLanguageOnly \/ HasAffirmation \/ HasStartKeyword

FirstMatch(v) ==
    LET order == RuleOrder(v)
        hits == {i \in DOMAIN order : RuleMatches(order[i], v)}
    IN  IF hits = {} THEN "Unclassified"
        ELSE order[CHOOSE i \in hits : \A j \in hits : i <= j]


(***************************************************************************)
(* C1..C10                                                                 *)
(***************************************************************************)
\* C1: whenever the last user message holds both a crisis keyword and a
\* start-practice keyword, the answer is the crisis text without a tool
\* payload, in chat.js, in both chat_v2.js handlers and in the quick intents
\* of chat_v3.
C1_CrisisPriority ==
    (/\ Answered
     /\ variant \in {"chat", "chat_v2_first", "chat_v2_talk", "chat_v3"}
     /\ hasKey
     /\ HasCrisisKeyword /\ HasStartKeyword)
    => (res.branch = "Crisis" /\ res.tool = NoTool)

\* C2: the single user turn "can you play the meditation in spanish" is
\* answered with status 200, the Spanish introduction and the Spanish
\* calm_breath entry as get_meditation payload.
C2_EndToEndSpanish ==
    (/\ Answered
     /\ variant \in {"chat", "chat_v2_first", "chat_v2_talk", "chat_v3"}
     /\ hasKey
     /\ Msgs = <<[role |-> "user", ctype |-> "string",
                  content |-> "can you play the meditation in spanish"]>>)
    => (res.status = 200 /\ res.message = INTRO_ES /\ SpanishPayload)

\* C3: a last user message with a decline/talk-only phrase and no crisis,
\* library or help keyword ("not now") is answered without an invitation to
\* start a practice and without a tool field.
C3_DeclineNoInvitation ==
    (/\ Answered
     /\ variant \in {"chat", "chat_v2_talk"}
     /\ HasDeclinePhrase
     /\ ~HasCrisisKeyword /\ ~HasLibraryKeyword /\ ~HasHelpKeyword)
    => (~HasInvitation(res.message) /\ res.tool = NoTool)

\* C4: a last user message with a decline phrase together with a start or
\* affirmation keyword, and no crisis, library or help keyword, is classified
\* DeclineOrTalkOnly and gets no get_meditation payload, in the chat_v2
\* talk-only handler and in the quick intents of chat_v3.
C4_DeclineBeforeStart ==
    (/\ Answered
     /\ variant \in {"chat_v2_talk", "chat_v3"}
     /\ hasKey
     /\ HasLastUser
     /\ includesAny(LastUserText, IF variant = "chat_v3" THEN v3_decline ELSE TALK_EN \o TALK_ES)
     /\ (HasStartKeyword \/ HasAffirmation)
     /\ ~HasCrisisKeyword /\ ~HasLibraryKeyword /\ ~HasHelpKeyword)
    => (res.branch # "StartPractice" /\ ~HasPracticePayload)

\* C5: in the chat_v2 talk-only handler the intent answered is the first rule
\* that matches in the order Crisis, LibraryRequest, HelpRequest,
\* DeclineOrTalkOnly, StartPractice, and Unclassified when none matches.
C5_StrictPriority ==
    (Answered /\ variant = "chat_v2_talk")
    => /\ res.branch = FirstMatch("chat_v2_talk")
       /\ res.branch = "Crisis" => res.message \in {v2_crisisReply("en"), v2_crisisReply("es")}
       /\ res.branch = "LibraryRequest" => res.message \in {libraryReply("en"), libraryReply("es")}
       /\ res.branch = "HelpRequest" => res.message \in {talk_helpReply("en"), talk_helpReply("es")}
       /\ res.branch \in {"DeclineOrTalkOnly", "Unclassified"}
            => \E i \in 1..3 : res.message \in {variants_en[i], variants_es[i]}
       /\ res.branch = "StartPractice" => res.message \in {INTRO_EN, INTRO_ES}

\* a message with a help keyword and a decline phrase was answered as help
C5_Witness ==
    /\ Answered /\ variant = "chat_v2_talk"
    /\ HasHelpKeyword /\ HasDeclinePhrase /\ ~HasCrisisKeyword /\ ~HasLibraryKeyword
    /\ res.branch = "HelpRequest"

\* C6: a last user message that is exactly a bare language name or code starts
\* the practice in that language whatever the history: "english" or "en"
\* gives language en, "español" or "es" gives language es.
C6_LanguageOnlyShortcut ==
    (/\ Answered
     /\ variant \in {"chat", "chat_v2_first", "chat_v2_talk", "part_002"}
     /\ HasLastUser)
    => /\ LastUserText \in {"english", "en"}
            => (HasPracticePayload /\ res.tool.result.language = "en")
       /\ LastUserText \in {"español", "es"}
            => (HasPracticePayload /\ res.tool.result.language = "es")

\* C7: a last user message with an affirmation, without a start keyword and
\* not a bare language name, starts the practice only if the previous
\* assistant turn was an invitation; otherwise no tool payload is returned.
C7_AffirmationNeedsInvitation ==
    (/\ Answered
     /\ variant \in {"chat", "chat_v2_first", "chat_v2_talk", "part_002"}
     /\ HasAffirmation /\ ~HasStartKeyword /\ ~IsLanguageOnly
     /\ ~PrevAssistantInvited)
    => (res.branch # "StartPractice" /\ res.tool = NoTool)

\* C8: a start request whose current message names English is served in en and
\* one that names Spanish is served in es, whatever the earlier turns say.
C8_ExplicitLanguageWins ==
    (/\ Answered
     /\ variant \in {"chat", "chat_v2_first", "chat_v2_talk"}
     /\ res.branch = "StartPractice")
    => /\ (StrIncludes(LastUserText, "english") /\ ~StrIncludes(LastUserText, "spanish"))
            => res.tool.result.language = "en"
       /\ (StrIncludes(LastUserText, "spanish") /\ ~StrIncludes(LastUserText, "english"))
            => res.tool.result.language = "es"

\* C9: a response of a deterministic handler carries a tool field exactly when
\* the intent selected for the request is StartPractice, and then the tool is
\* get_meditation with title, language, duration, audioUrl and script.
C9_ToolIffStartPractice ==
    (Answered /\ variant \in DeterministicVariants)
    => /\ (res.tool # NoTool) <=> (FirstMatch(variant) = "StartPractice")
       /\ (res.tool # NoTool) <=> (res.branch = "StartPractice")
       /\ res.tool # NoTool =>
            /\ res.tool.name = "get_meditation"
            /\ res.tool.result.language \in {"en", "es"}
            /\ res.tool.result.title = MEDITATIONS[res.tool.result.language].calm_breath.title
            /\ res.tool.result.duration = MEDITATIONS[res.tool.result.language].calm_breath.duration
            /\ res.tool.result.audioUrl = MEDITATIONS[res.tool.result.language].calm_breath.audioUrl
            /\ res.tool.result.script = MEDITATIONS[res.tool.result.language].calm_breath.script

\* a start request answered with the payload, by chat.js
C9_Witness ==
    /\ Answered /\ variant = "chat"
    /\ FirstMatch("chat") = "StartPractice"
    /\ res.tool.name = "get_meditation" /\ res.tool.result.script # ""

\* C10: the practice lookup answers every language code with status 200 and a
\* get_meditation payload; a code without an entry in MEDITATIONS gets the
\* title, duration, audioUrl and script of the English calm_breath entry.
C10_CatalogFallback ==
    (pc = "done" /\ lookup # "none")
    => /\ res.status = 200
       /\ res.tool.name = "get_meditation"
       /\ res.tool.result.language = lookup
       /\ LET entry == IF lookup \in DOMAIN MEDITATIONS
                       THEN MEDITATIONS[lookup].calm_breath
                       ELSE MEDITATIONS.en.calm_breath
          IN  /\ res.tool.result.title = entry.title
              /\ res.tool.result.duration = entry.duration
              /\ res.tool.result.audioUrl = entry.audioUrl
              /\ res.tool.result.script = entry.script

\* the lookup of a code that has no entry returned the English entry
C10_Witness ==
    /\ pc = "done" /\ lookup = "fr" /\ variant = "lookup_chat"
    /\ res.status = 200
    /\ res.tool.result.title = MEDITATIONS.en.calm_breath.title

(***************************************************************************)
(* C11..C20                                                                *)
(***************************************************************************)
Intents ==
    {"Crisis", "LibraryRequest", "HelpRequest", "DeclineOrTalkOnly", "StartPractice",
     "Unclassified"}

\* the texts of the supportive default reply of the handler file v
DefaultReplies(v) ==
    IF v = "chat_v2_talk"
    THEN {variants_en[i] : i \in 1..3} \cup {variants_es[i] : i \in 1..3}
    ELSE {supportiveReply("en"), supportiveReply("es")}

\* C11: for every messages array (empty, without a user turn, with null
\* elements, with user turns whose content is not a string) the handlers of
\* chat.js and chat_v2.js select one intent and no exception escapes; without
\* a user turn of string content the answer is the supportive default reply
\* with status 200 and no tool.
C11_ClassificationTotal ==
    (/\ pc = "done" /\ lookup = "none"
     /\ variant \in {"chat", "chat_v2_first", "chat_v2_talk"}
     /\ req.method = "POST" /\ req.body.kind = "object")
    => /\ res.branch \in Intents
       /\ ~HasLastUser =>
            /\ res.branch = "Unclassified"
            /\ res.status = 200
            /\ res.message \in DefaultReplies(variant)
            /\ res.tool = NoTool

\* the model was called while the request was served
ModelCalled == first # NoOutcome

\* C12: a POST with body { messages: [] } is answered with status 200, the
\* supportive default reply and no tool field, by the deterministic handlers
\* and by the hybrid handler without the model deciding the answer.
C12_EmptyInput ==
    (/\ pc = "done" /\ lookup = "none"
     /\ variant \in {"chat", "chat_v2_first", "chat_v2_talk", "chat_v3"}
     /\ hasKey
     /\ req.method = "POST" /\ req.body.kind = "object" /\ Msgs = <<>>)
    => /\ res.status = 200
       /\ res.tool = NoTool
       /\ IF variant = "chat_v3"
          THEN ~ModelCalled /\ res.message = V3_RARE_FALLBACK
          ELSE res.branch = "Unclassified" /\ res.message \in DefaultReplies(variant)

LastTurnsOnly(messages) ==
    LET readable(role) == {i \in DOMAIN messages :
                              messages[i].role = role /\ messages[i].ctype = "string"}
        lastOf(role) == messages[CHOOSE i \in readable(role) : \A j \in readable(role) : j <= i]
    IN  (IF readable("assistant") = {} THEN <<>> ELSE <<lastOf("assistant")>>)
        \o (IF readable("user") = {} THEN <<>> ELSE <<lastOf("user")>>)

\* the response of the handler file v to the request r
HandlerOf(v, r) ==
    IF v = "chat" THEN chat_handler(r)
    ELSE IF v = "chat_v2_first" THEN v2_handler(r)
    ELSE talk_handler(r)

\* C14: in chat.js and chat_v2.js the intent selected for a history is the one
\* selected for its last user turn (with the last assistant turn before it)
\* alone: two histories with the same last user turn get the same intent, and
\* keywords of earlier user turns change nothing.
C14_LastTurnOnly ==
    (Answered /\ variant \in {"chat", "chat_v2_first", "chat_v2_talk"})
    => res.branch =
         HandlerOf(variant, [req EXCEPT !.body.messages = LastTurnsOnly(Msgs)]).branch

\* an earlier user turn spoke of suicide, the last one did not, and the answer
\* is the default reply
C14_Witness ==
    /\ Answered /\ variant = "chat"
    /\ Len(Msgs) = 2
    /\ Msgs[1].role = "user" /\ Msgs[1].ctype = "string"
    /\ includesAny(norm(Text(Msgs[1].content)), CRISIS_EN \o CRISIS_ES)
    /\ Msgs[2].role = "user" /\ Msgs[2].ctype = "string"
    /\ ~HasCrisisKeyword
    /\ res.branch = "Unclassified"

\* C15: in the hybrid handlers a last user message with a crisis, library,
\* help or decline keyword is answered by the deterministic path: the model
\* is not called for that request.
C15_PreFilter ==
    (/\ pc = "done" /\ lookup = "none"
     /\ variant \in {"chat_v3", "part_001"}
     /\ hasKey
     /\ req.method = "POST" /\ req.body.kind = "object"
     /\ (HasCrisisKeyword \/ HasLibraryKeyword \/ HasHelpKeyword \/ HasDeclinePhrase))
    => /\ ~ModelCalled
       /\ res.branch \notin {"ModelText", "ModelTool", "ModelFallback", "ModelError", "Failed"}

\* C16: in the chat_v3 hybrid handler without an OPENAI_API_KEY a POST whose
\* last user message is matched by the quick intents (start, language-only,
\* library, help, crisis) still gets its deterministic answer with status
\* 200.
C16_KeylessDeterministicPath ==
    (/\ pc = "done" /\ lookup = "none"
     /\ variant = "chat_v3" /\ ~hasKey
     /\ req.method = "POST" /\ req.body.kind = "object"
     /\ quickIntent(Msgs).name \in {"get_meditation", "get_library", "get_help", "handoff_crisis"})
    => /\ res.status = 200
       /\ res.branch \in {"StartPractice", "LibraryRequest", "HelpRequest", "Crisis"}

\* C17: every POST received by a hybrid handler is eventually answered, also
\* when a model call never settles.
C17_BoundedWait ==
    (pc = "received" /\ variant \in {"chat_v3", "part_001"} /\ req.method = "POST")
        ~> (pc = "done")

\* the fixed text a hybrid handler answers with from its catch block
FallbackText(v) == IF v = "chat_v3" THEN V3_ERROR ELSE P1_FAIL

\* every fixed text a hybrid handler falls back to
FixedFallbackTexts == {V3_ERROR, V3_RARE_FALLBACK, P1_FAIL, P1_NUDGE}

\* a model call of the request threw or rejected
ModelCallFailed == first.kind = "throws" \/ first.follow = "throws"

\* the model's tool call came with arguments JSON.parse rejects
ArgumentsUnparsable == first.kind = "tool" /\ first.arguments = "garbage"

\* C18 as stated: after a model call that throws or rejects, and after a tool
\* call with unparsable arguments, the hybrid handler answers 200 with a
\* fixed fallback text alone, without the error's message.
C18_FailureFallbackText ==
    (/\ pc = "done" /\ lookup = "none"
     /\ variant \in {"chat_v3", "part_001"}
     /\ ModelCallFailed \/ ArgumentsUnparsable)
    => /\ res.status = 200
       /\ res.message \in FixedFallbackTexts
       /\ res.tool = NoTool

\* C18, amended: after a model call that throws or rejects the hybrid handler
\* answers 200 with its fixed fallback text alone; unparsable tool arguments
\* never leave the handler either: part_001 answers the fallback text and
\* chat_v3 reads them as language en and goes on with the practice when the
\* tool is get_meditation, and answers its rare fallback text otherwise.  No
\* response of a hybrid handler carries the error's message.
C18_FailureRecovered ==
    (/\ pc = "done" /\ lookup = "none"
     /\ variant \in {"chat_v3", "part_001"}
     /\ ModelCalled)
    => /\ res.branch # "Threw"
       /\ res.status = 200
       /\ ~StrIncludes(res.message, MODEL_ERROR)
       /\ ModelCallFailed
            => (res.message = FallbackText(variant) /\ res.tool = NoTool)
       /\ (ArgumentsUnparsable /\ ~ModelCallFailed /\ variant = "part_001")
            => (res.message = P1_FAIL /\ res.tool = NoTool)
       /\ (ArgumentsUnparsable /\ ~ModelCallFailed /\ variant = "chat_v3"
           /\ first.name = "get_meditation")
            => (HasPracticePayload /\ res.tool.result.language = "en")
       /\ (ArgumentsUnparsable /\ ~ModelCallFailed /\ variant = "chat_v3"
           /\ first.name # "get_meditation")
            => (res.message = V3_RARE_FALLBACK /\ res.tool = NoTool)

\* the follow-up call of chat_v3 rejected and the fallback text was sent
C18_Witness ==
    /\ pc = "done" /\ variant = "chat_v3"
    /\ first.kind = "tool" /\ first.follow = "throws"
    /\ res.status = 200 /\ res.message = V3_ERROR /\ res.tool = NoTool

\* C19: in the hybrid handlers a get_meditation payload answers a tool call of
\* the model only when that call is named get_meditation; after a
\* get_meditation call whose follow-up call returned, the payload is there and
\* its language is es only for the argument es, and en for any other language
\* and for unparsable arguments.
C19_ActionsValidated ==
    (/\ pc = "done" /\ lookup = "none"
     /\ variant \in {"chat_v3", "part_001"}
     /\ first.kind = "tool")
    => /\ first.name # "get_meditation" => ~HasPracticePayload
       /\ (first.name = "get_meditation" /\ first.follow \in {"text", "empty"})
            => /\ HasPracticePayload
               /\ res.tool.result.language = (IF first.arguments = "es" THEN "es" ELSE "en")
       /\ (first.name = "get_meditation" /\ first.arguments \in {"fr", "garbage"}
           /\ first.follow # "throws")
            => (HasPracticePayload /\ res.tool.result.language = "en")

\* C20: in every handler variant a finished request whose method is neither
\* POST nor OPTIONS was answered 405 and not 200, a finished OPTIONS request
\* was answered 200 with an empty body, and in both cases the handler returned
\* at its method check: no intent was selected and the model was not called.
C20_MethodHandling ==
    (pc = "done" /\ req.method # "POST")
    => /\ ~ModelCalled
       /\ res.tool = NoTool
       /\ res.branch \in {"Options", "MethodNotAllowed"}
       /\ req.method = "OPTIONS" => (res.status = 200 /\ res.message = "")
       /\ req.method # "OPTIONS" => (res.status = 405 /\ res.status # 200)

(***************************************************************************)
(* C21..C30                                                                *)
(***************************************************************************)
\* the POST carried text that JSON.parse rejects, as a string or streamed
MalformedBody == req.method = "POST" /\ req.body.kind \in {"invalid", "invalid_stream"}

\* C21: a finished POST whose body is not valid JSON, delivered as a string or
\* as streamed data, was answered with a 4xx status and the short invalid-JSON
\* message, was not classified as an empty history, reached no model call and
\* left no exception behind.  The chat_v3 deployment without its key, which
\* answers every POST 500 before it reads the body, is left aside.
C21_MalformedBody ==
    (pc = "done" /\ lookup = "none" /\ MalformedBody /\ (variant = "chat_v3" => hasKey))
    => /\ res.status \in 400..499
       /\ res.message = MSG_BAD_JSON
       /\ res.branch = "BadJson"
       /\ res.tool = NoTool
       /\ ~ModelCalled

\* the POST carried valid JSON, or nothing, without a messages array
NoMessagesArray ==
    req.method = "POST" /\ req.body.kind \in {"nomessages", "nullmessages", "notarray", "empty"}

\* the same request with the body { "messages": [] }
WithEmptyMessages(r) == [r EXCEPT !.body = [kind |-> "object", messages |-> <<>>]]

\* C22: a finished POST whose body is valid JSON with messages absent, null or
\* not an array, or is empty, got the response the same file gives to
\* { messages: [] } (with the same model outcomes), and that response is 200.
C22_MissingMessagesEmptyHistory ==
    (pc = "done" /\ lookup = "none" /\ NoMessagesArray)
    => /\ res = Served(variant, WithEmptyMessages(req), hasKey, first)
       /\ res.status = 200

\* the ALLOWED_ORIGINS array of the file
AllowList(v) ==
    IF v \in {"chat_v2_first", "chat_v2_talk", "chat_v3"} THEN ALLOWED_ORIGINS_V2
    ELSE ALLOWED_ORIGINS

\* C23: a finished POST that carried an Origin header outside the allow-list
\* was refused: its status is not a success, it carries no tool payload, the
\* model was not called for it, and its Access-Control-Allow-Origin header is
\* not an origin of the allow-list put in the place of the caller's.
C23_OriginPolicy ==
    (/\ pc = "done" /\ lookup = "none" /\ req.method = "POST"
     /\ req.origin # "" /\ ~ArrIncludes(AllowList(variant), req.origin))
    => /\ res.status \notin 200..299
       /\ res.tool = NoTool
       /\ ~ModelCalled
       /\ ~ArrIncludes(AllowList(variant), res.allowOrigin)

PlayPhrases ==
    {"play the meditation", "listen to the track", "reproduce la meditación", "escuchar la pista"}
LibraryPhrases == {"show library", "lista de meditaciones"}

\* the request is a single user message, its text
OnlyMessage == IF Len(Msgs) = 1 /\ HasLastUser THEN lastWithRole(Msgs, "user").content ELSE ""

\* C25: in api/chat.js, sent as the only message of the history, each play
\* phrase of the help reply, and any message without a crisis keyword that
\* contains "play", "start" or "listen", is answered with the Calm Breath
\* payload, each library phrase with the library listing, "english" with the
\* practice in English and "español" with the practice in Spanish.
C25_AdvertisedPhrases ==
    (Answered /\ variant = "chat" /\ Len(Msgs) = 1 /\ HasLastUser)
    => /\ OnlyMessage \in PlayPhrases => HasPracticePayload
       /\ (/\ ~HasCrisisKeyword
           /\ \/ StrIncludes(LastUserText, "play")
              \/ StrIncludes(LastUserText, "start")
              \/ StrIncludes(LastUserText, "listen"))
            => HasPracticePayload
       /\ OnlyMessage \in LibraryPhrases
            => (res.branch = "LibraryRequest" /\ res.tool = NoTool
                /\ res.message \in {libraryReply("en"), libraryReply("es")})
       /\ OnlyMessage = "english" => (HasPracticePayload /\ res.tool.result.language = "en")
       /\ OnlyMessage = "español" => (HasPracticePayload /\ res.tool.result.language = "es")

\* the fixed text of a branch of the file in a language
FixedReply(v, branch, lang) ==
    IF branch = "Crisis" THEN (IF v = "chat" THEN crisisReply(lang) ELSE v2_crisisReply(lang))
    ELSE IF branch = "LibraryRequest" THEN libraryReply(lang)
    ELSE IF v = "chat_v2_talk" THEN talk_helpReply(lang)
    ELSE helpReply(lang)

\* C26: in api/chat.js and both handlers of api/chat_v2.js the message of a
\* Crisis, LibraryRequest or HelpRequest response is the fixed Spanish text of
\* that branch when inferLanguage gives es for the history and the fixed
\* English text otherwise, whatever the language of the keyword that matched;
\* the two texts differ.
C26_FixedTextLanguage ==
    (/\ Answered /\ variant \in {"chat", "chat_v2_first", "chat_v2_talk"}
     /\ res.branch \in {"Crisis", "LibraryRequest", "HelpRequest"})
    => /\ res.message = FixedReply(variant, res.branch,
                                   IF inferLanguage(Msgs) = "es" THEN "es" ELSE "en")
       /\ FixedReply(variant, res.branch, "es") # FixedReply(variant, res.branch, "en")
       /\ res.tool = NoTool

\* the English keyword "help" after a user turn in Spanish got the Spanish help
C26_Witness ==
    /\ Answered /\ variant = "chat_v2_first" /\ res.branch = "HelpRequest"
    /\ LastUserText = "help"
    /\ inferLanguage(Msgs) = "es"
    /\ res.message = helpReply("es")

\* the positions of the final five entries of a history
Window(h) == {i \in 1..Len(h) : i > Len(h) - 5}

\* the text contains one of the Spanish-indicative keywords
HasSpanishKeyword(text) == \E k \in DOMAIN ES_HINTS : StrIncludes(toLowerCase(text), ES_HINTS[k])

\* a user turn among the final five entries contains a Spanish keyword
SpanishInWindow(h) ==
    \E i \in Window(h) : h[i].role = "user" /\ HasSpanishKeyword(Text(h[i].content))

\* C27: inferLanguage of api/chat.js, api/chat_v2.js and part_002 returns es
\* exactly when a user turn among the final five entries of the history
\* (entries of every role count toward the five) contains a Spanish-indicative
\* keyword, and en otherwise: older user turns, assistant turns and a later
\* "english" change nothing.
C27_LanguageWindow ==
    (pc = "done" /\ variant \in {"chat", "chat_v2_talk", "part_002"})
    => /\ lookup \in {"es", "en"}
       /\ lookup = "es" <=> SpanishInWindow(req.body.messages)

\* what the content of an assistant or system turn can be replaced with
ReplacedContents ==
    {[ctype |-> "string", content |-> c] : c \in {INVITE, INTRO_ES, SystemText, ""}}
    \cup {[ctype |-> "undefined", content |-> ""]}

\* the positions of the assistant and system turns of a history
OtherRolePositions(h) == {i \in 1..Len(h) : h[i].role \in {"assistant", "system"}}

\* the history with the content of those turns replaced as f says
ReplaceContents(h, f) ==
    [i \in 1..Len(h) |->
        IF i \in OtherRolePositions(h)
        THEN [h[i] EXCEPT !.ctype = f[i].ctype, !.content = f[i].content]
        ELSE h[i]]

\* C28: in api/chat.js, both handlers of api/chat_v2.js, part_002 and part_003
\* the response to a POST is the response to the same history with the
\* contents of its assistant and system turns replaced by any others, roles
\* and positions kept; the library-nudge branch of wantsMeditation changes
\* no result.
C28_AssistantContentIgnored ==
    (/\ pc = "done" /\ lookup = "none" /\ req.method = "POST"
     /\ variant \in DeterministicVariants
     /\ OtherRolePositions(Msgs) # {})
    => \A f \in [OtherRolePositions(Msgs) -> ReplacedContents] :
          res = Served(variant,
                       [req EXCEPT !.body = [kind |-> "object",
                                             messages |-> ReplaceContents(Msgs, f)]],
                       hasKey, first)

\* "yes" after the library nudge started the practice, as it does after any
\* other assistant message
C28_Witness ==
    /\ pc = "done" /\ variant = "chat" /\ res.branch = "StartPractice"
    /\ Len(Msgs) = 2 /\ Msgs[1].role = "assistant" /\ Msgs[1].content = INVITE
    /\ Msgs[2].role = "user" /\ LastUserText = "yes"

\* C29: every StartPractice response of the deterministic handlers and of the
\* deterministic quick start of the hybrid ones has status 200 and a
\* get_meditation payload whose language is en or es, whose title, duration,
\* audioUrl and script are those of the calm_breath entry of that language,
\* and whose message is the Spanish introduction exactly when the language is
\* es.
C29_PayloadConsistency ==
    (pc = "done" /\ lookup = "none" /\ res.branch = "StartPractice")
    => /\ res.status = 200
       /\ res.tool.name = "get_meditation"
       /\ res.tool.result.language \in {"en", "es"}
       /\ LET entry == MEDITATIONS[res.tool.result.language].calm_breath
          IN  /\ res.tool.result.title = entry.title
              /\ res.tool.result.duration = entry.duration
              /\ res.tool.result.audioUrl = entry.audioUrl
              /\ res.tool.result.script = entry.script
       /\ res.message = (IF res.tool.result.language = "es" THEN INTRO_ES ELSE INTRO_EN)
       /\ INTRO_ES # INTRO_EN
       /\ MEDITATIONS.es.calm_breath.audioUrl # MEDITATIONS.en.calm_breath.audioUrl

\* part_002 started the practice in Spanish with the Spanish entry
C29_Witness ==
    /\ pc = "done" /\ lookup = "none" /\ variant = "part_002"
    /\ res.branch = "StartPractice"
    /\ res.tool.result.language = "es"
    /\ res.tool.result.audioUrl = AUDIO_ES
    /\ res.message = INTRO_ES

====
